---------------------------- MODULE Spec2Model ----------------------------
(***************************************************************************)
(* Schema-validated RPC dispatch of @loke/http-rpc: serviceWithSchema      *)
(* (schema.ts) wraps every declared method of a service between a request  *)
(* validator and a response validator, and createRequestHandler (index.ts) *)
(* routes HTTP requests to the wrapped methods.                            *)
(*                                                                         *)
(* JavaScript values are records tagged by "t".  A JavaScript string that  *)
(* the program builds or takes apart (instance paths, schema paths,        *)
(* messages, log lines) is a sequence of chunks whose concatenation is the *)
(* text; Flat gives the text.  A JavaScript object used as a dictionary    *)
(* with insertion order is a sequence of [k, v] entries; a schema object   *)
(* is a TLA+ record whose DOMAIN is its set of keys.                       *)
(***************************************************************************)
EXTENDS Integers, Sequences, FiniteSets, Bags, TLC

-----------------------------------------------------------------------------
(* JavaScript values *)

Undefined == [t |-> "undefined"]
Null == [t |-> "null"]
Num(n) == [t |-> "number", n |-> n]
Str(s) == [t |-> "string", s |-> s]
Bool(b) == [t |-> "boolean", b |-> b]
\* an object: id is its identity, props its own enumerable entries in order
Obj(id, props) == [t |-> "object", id |-> id, props |-> props]

\* typeof v
TypeOf(v) == IF v.t = "null" THEN "object" ELSE v.t

\* v in a boolean context (if (v), v && ...)
Truthy(v) ==
    CASE v.t = "undefined" -> FALSE
      [] v.t = "null" -> FALSE
      [] v.t = "number" -> v.n # 0
      [] v.t = "string" -> v.s # ""
      [] v.t = "boolean" -> v.b
      [] OTHER -> TRUE

\* key in obj, for a dictionary kept as a sequence of entries
HasKey(entries, k) == \E i \in 1..Len(entries) : entries[i].k = k

\* obj[k]: the entry's value, undefined when there is none
Get(entries, k) ==
    IF HasKey(entries, k)
    THEN entries[CHOOSE i \in 1..Len(entries) : entries[i].k = k].v
    ELSE Undefined

\* the text of a string kept as chunks
RECURSIVE Flat(_)
Flat(chunks) ==
    IF chunks = <<>> THEN "" ELSE Head(chunks) \o Flat(Tail(chunks))

\* Array.prototype.join over texts
RECURSIVE Join(_, _)
Join(texts, sep) ==
    IF texts = <<>> THEN ""
    ELSE IF Len(texts) = 1 THEN texts[1]
    ELSE texts[1] \o sep \o Join(Tail(texts), sep)

\* JSON.stringify(v) for a v that is not undefined; properties whose value
\* is undefined are left out
RECURSIVE JSONStringify(_)
JSONStringify(v) ==
    CASE v.t = "null" -> "null"
      [] v.t = "number" -> ToString(v.n)
      [] v.t = "string" -> "\"" \o v.s \o "\""
      [] v.t = "boolean" -> IF v.b THEN "true" ELSE "false"
      [] v.t = "object" ->
            LET kept == SelectSeq(v.props, LAMBDA e : e.v.t # "undefined")
                texts == [i \in 1..Len(kept) |->
                            "\"" \o kept[i].k \o "\":" \o JSONStringify(kept[i].v)]
            IN "{" \o Join(texts, ",") \o "}"
      [] OTHER -> "undefined"

-----------------------------------------------------------------------------
(* JSON Type Definition schemas and their validators (Ajv, ajv/dist/jtd).  *)
(* A schema is a record whose keys are the JTD keywords it carries;        *)
(* properties, optionalProperties and definitions hold ordered entries     *)
(* [k, v].  The forms modelled are: empty, ref, type, enum and properties  *)
(* (with optionalProperties and additionalProperties), each with nullable  *)
(* and with metadata carrying the "void" keyword that serviceWithSchema    *)
(* registers, the discriminator form, and the "union" keyword under        *)
(* metadata.  Ajv's JTD validators stop at the first failure.              *)

\* {...a, ...b}: the keys of both, b winning
Spread(a, b) ==
    [k \in (DOMAIN a) \cup (DOMAIN b) |-> IF k \in DOMAIN b THEN b[k] ELSE a[k]]

\* the empty object {}
EmptyObject == [k \in {} |-> 0]

JTDTypes == {"string", "boolean", "float64", "int32"}

\* the keywords that select the form of a schema
FormKeys(schema) == (DOMAIN schema) \ {"definitions", "nullable", "metadata"}

Entries(schema, key) == IF key \in DOMAIN schema THEN schema[key] ELSE <<>>

Keys(entries) == {entries[i].k : i \in 1..Len(entries)}

\* what ajv.compile checks of a schema: it has exactly one JTD form, its
\* sub-schemas do too, and every ref names a definition
\* the schemas under metadata.union, none where the keyword is absent
UnionOf(schema) ==
    IF "metadata" \in DOMAIN schema /\ "union" \in DOMAIN schema.metadata
    THEN schema.metadata.union
    ELSE <<>>

RECURSIVE WellFormed(_, _, _)
WellFormed(schema, defs, isRoot) ==
    LET form == FormKeys(schema)
        subs == Entries(schema, "properties") \o Entries(schema, "optionalProperties")
                \o Entries(schema, "mapping")
                \o [i \in 1..Len(UnionOf(schema)) |-> [k |-> "", v |-> UnionOf(schema)[i]]]
    IN  /\ ("definitions" \in DOMAIN schema) => isRoot
        /\ \/ form = {}
           \/ /\ form = {"discriminator", "mapping"}
              /\ \A i \in 1..Len(schema.mapping) :
                    /\ "properties" \in DOMAIN schema.mapping[i].v
                    /\ "nullable" \notin DOMAIN schema.mapping[i].v
                    /\ ~HasKey(schema.mapping[i].v.properties, schema.discriminator)
           \/ form = {"ref"} /\ HasKey(defs, schema.ref)
           \/ form = {"type"} /\ schema.type \in JTDTypes
           \/ form = {"enum"} /\ Len(schema.enum) > 0
           \/ /\ form \subseteq {"properties", "optionalProperties", "additionalProperties"}
              /\ form \cap {"properties", "optionalProperties"} # {}
              /\ Keys(Entries(schema, "properties"))
                    \cap Keys(Entries(schema, "optionalProperties")) = {}
        /\ \A i \in 1..Len(subs) : WellFormed(subs[i].v, defs, FALSE)

\* ajv.compile(schema) returns a validator, or throws
CompileOk(schema) ==
    /\ \A i \in 1..Len(schema.definitions) :
            WellFormed(schema.definitions[i].v, schema.definitions, FALSE)
    /\ WellFormed(schema, schema.definitions, TRUE)

\* the message of the error ajv.compile throws
CompileErrorMessage(schema) == "schema is invalid"

\* one entry of validate.errors
ErrorObject(instancePath, schemaPath, keyword, params, message) ==
    [instancePath |-> instancePath, schemaPath |-> schemaPath,
     keyword |-> keyword, params |-> params, message |-> message]

IsPlainObject(data) == data.t = "object"

\* the JTD type check of one value; the numbers of the model are integers
\* far inside the int32 range
HasJTDType(data, type) ==
    CASE type = "string" -> data.t = "string"
      [] type = "boolean" -> data.t = "boolean"
      [] type = "float64" -> data.t = "number"
      [] type = "int32" -> data.t = "number"
      [] OTHER -> FALSE

\* FirstFailure that goes on after a failure and keeps the last one
RECURSIVE FirstFailure_Last(_)
FirstFailure_Last(lists) ==
    IF lists = <<>> THEN <<>>
    ELSE IF FirstFailure_Last(Tail(lists)) # <<>> THEN FirstFailure_Last(Tail(lists))
    ELSE Head(lists)

\* the first element of a sequence of failure lists that is not empty
RECURSIVE FirstFailure(_)
FirstFailure(lists) ==
    IF lists = <<>> THEN <<>>
    ELSE IF Head(lists) # <<>> THEN Head(lists)
    ELSE FirstFailure(Tail(lists))

\* the "void" keyword that lets null pass as well as undefined
VoidKeywordPasses_Nullish(data) == data.t \in {"undefined", "null"}

\* the user keyword "void": validate: (_, data) => data === undefined
VoidKeywordPasses(data) == data.t = "undefined"

\* data without its property k
Without(data, k) == [data EXCEPT !.props = SelectSeq(@, LAMBDA e : e.k # k)]

\* the failure of the tag of a discriminator form, <<>> when the tag names
\* a schema of the mapping
TagFailure(schema, data, ip, sp) ==
    LET tag == schema.discriminator
        has == HasKey(data.props, tag) /\ Get(data.props, tag).t # "undefined"
        tagValue == Get(data.props, tag)
    IN  IF ~has
        THEN << ErrorObject(ip, sp \o <<"/", "discriminator">>, "discriminator",
                            [error |-> "tag", tag |-> tag, tagValue |-> Undefined],
                            "tag \"" \o tag \o "\" must be string") >>
        ELSE IF tagValue.t # "string"
        THEN << ErrorObject(ip \o <<"/", tag>>, sp \o <<"/", "discriminator">>,
                            "discriminator",
                            [error |-> "tag", tag |-> tag, tagValue |-> tagValue],
                            "tag \"" \o tag \o "\" must be string") >>
        ELSE IF ~HasKey(schema.mapping, tagValue.s)
        THEN << ErrorObject(ip \o <<"/", tag>>, sp \o <<"/", "mapping">>,
                            "discriminator",
                            [error |-> "mapping", tag |-> tag, tagValue |-> tagValue],
                            "value of tag \"" \o tag \o "\" must be in mapping") >>
        ELSE <<>>

\* UnionMatches that takes the union for decoration: any data matches
UnionMatches_Always(results) == TRUE

\* the union keyword, given the failures of data against each of its
\* schemas: data matches when it is valid against one of them
UnionMatches(results) == \E i \in 1..Len(results) : results[i] = <<>>

\* the failure lists of a sequence, one after the other
RECURSIVE Concat(_)
Concat(lists) == IF lists = <<>> THEN <<>> ELSE Head(lists) \o Concat(Tail(lists))

\* the failures one compiled validator reports for data: <<>> when data is
\* valid, else the first failure.  ip and sp are the instance path and the
\* schema path so far.
RECURSIVE Validate(_, _, _, _, _)
Validate(schema, defs, data, ip, sp) ==
    LET form == FormKeys(schema)
        nullable == "nullable" \in DOMAIN schema /\ schema.nullable
        props == Entries(schema, "properties")
        optProps == Entries(schema, "optionalProperties")
        additional ==
            "additionalProperties" \in DOMAIN schema /\ schema.additionalProperties
        \* the keyword that reports the failures of the properties form
        pkw == IF "properties" \in DOMAIN schema THEN "properties"
               ELSE "optionalProperties"
        present(k) == HasKey(data.props, k) /\ Get(data.props, k).t # "undefined"
        required ==
            [i \in 1..Len(props) |->
                IF present(props[i].k)
                THEN Validate(props[i].v, defs, Get(data.props, props[i].k),
                              ip \o <<"/", props[i].k>>,
                              sp \o <<"/", "properties", "/", props[i].k>>)
                ELSE << ErrorObject(ip, sp \o <<"/", "properties", "/", props[i].k>>,
                                    "properties",
                                    [error |-> "missing", missingProperty |-> props[i].k],
                                    "must have property '" \o props[i].k \o "'") >>]
        optional ==
            [i \in 1..Len(optProps) |->
                IF present(optProps[i].k)
                THEN Validate(optProps[i].v, defs, Get(data.props, optProps[i].k),
                              ip \o <<"/", optProps[i].k>>,
                              sp \o <<"/", "optionalProperties", "/", optProps[i].k>>)
                ELSE <<>>]
        extra ==
            [i \in 1..Len(data.props) |->
                IF additional \/ data.props[i].k \in Keys(props) \cup Keys(optProps)
                THEN <<>>
                ELSE << ErrorObject(ip \o <<"/", data.props[i].k>>, sp, pkw,
                                    [error |-> "additional",
                                     additionalProperty |-> data.props[i].k],
                                    "must NOT have additional properties") >>]
        formFailures ==
            CASE form = {} -> <<>>
              [] nullable /\ data.t = "null" -> <<>>
              [] form = {"ref"} ->
                    Validate(Get(defs, schema.ref), defs, data, ip,
                             <<"/", "definitions", "/", schema.ref>>)
              [] form = {"type"} ->
                    IF HasJTDType(data, schema.type) THEN <<>>
                    ELSE << ErrorObject(ip, sp \o <<"/", "type">>, "type",
                                        [type |-> schema.type, nullable |-> nullable],
                                        "must be " \o schema.type) >>
              [] form = {"enum"} ->
                    IF data.t = "string" /\ \E i \in 1..Len(schema.enum) : schema.enum[i] = data.s
                    THEN <<>>
                    ELSE << ErrorObject(ip, sp \o <<"/", "enum">>, "enum",
                                        [allowedValues |-> schema.enum],
                                        "must be equal to one of the allowed values") >>
              [] form = {"discriminator", "mapping"} ->
                    IF ~IsPlainObject(data)
                    THEN << ErrorObject(ip, sp \o <<"/", "discriminator">>,
                                        "discriminator",
                                        [type |-> "object", nullable |-> nullable],
                                        "must be object") >>
                    ELSE IF TagFailure(schema, data, ip, sp) # <<>>
                    THEN TagFailure(schema, data, ip, sp)
                    ELSE LET tagValue == Get(data.props, schema.discriminator).s
                         IN Validate(Get(schema.mapping, tagValue), defs,
                                     Without(data, schema.discriminator), ip,
                                     sp \o <<"/", "mapping", "/", tagValue>>)
              [] OTHER ->
                    IF ~IsPlainObject(data)
                    THEN << ErrorObject(ip, sp \o <<"/", pkw>>, pkw,
                                        [type |-> "object", nullable |-> nullable],
                                        "must be object") >>
                    ELSE FirstFailure(required \o optional \o extra)
        \* the keyword "union" under metadata: the failures of every schema
        \* of the union, and the keyword's own
        members ==
            [i \in 1..Len(UnionOf(schema)) |->
                Validate(UnionOf(schema)[i], defs, data, ip,
                         sp \o <<"/", "metadata", "/", "union", "/", JSONStringify(Num(i - 1))>>)]
        unionFailures ==
            IF UnionOf(schema) = <<>> \/ UnionMatches(members) THEN <<>>
            ELSE Concat(members)
                 \o << ErrorObject(ip, sp \o <<"/", "metadata", "/", "union">>, "union",
                                    EmptyObject, "must match a schema in union") >>
        \* the user keyword "void" under metadata
        voidFailures ==
            IF /\ "metadata" \in DOMAIN schema
               /\ "void" \in DOMAIN schema.metadata
               /\ ~VoidKeywordPasses(data)
            THEN << ErrorObject(ip, sp \o <<"/", "metadata", "/", "void">>, "void",
                                EmptyObject, "must pass \"void\" keyword validation") >>
            ELSE <<>>
    IN FirstFailure(<<formFailures, unionFailures, voidFailures>>)

\* validate(data) for the validator compiled from a root schema
RunValidator(schema, data) == Validate(schema, schema.definitions, data, <<>>, <<>>)

-----------------------------------------------------------------------------
(* errorMessage (schema.ts) *)

\* str.replace(/\//g, ".") on chunks: keys never hold a raw "/", Ajv writes
\* instance paths as JSON pointers
ReplaceSlashes(chunks) ==
    [i \in 1..Len(chunks) |-> IF chunks[i] = "/" THEN "." ELSE chunks[i]]

\* str.slice(1) of a path, whose first character is its leading "/"
Slice1(chunks) == Tail(chunks)

\* str.split("/") of a path without its leading "/"
SplitSlashes(chunks) == SelectSeq(chunks, LAMBDA c : c # "/")

\* pathParts.reduce(...): walk data along the parts
RECURSIVE Navigate(_, _)
Navigate(obj, parts) ==
    IF parts = <<>> THEN obj
    ELSE Navigate(IF Truthy(obj) /\ TypeOf(obj) = "object"
                  THEN Get(obj.props, Head(parts))
                  ELSE Undefined,
                  Tail(parts))

\* ActualValue that resolves the value at the root as well
ActualValue_FromRoot(err, data) ==
    IF Truthy(data)
    THEN Navigate(data, SplitSlashes(err.instancePath))
    ELSE Undefined

\* the value the message reports as received
ActualValue(err, data) ==
    IF Truthy(data) /\ err.instancePath # <<>>
    THEN Navigate(data, SplitSlashes(Slice1(err.instancePath)))
    ELSE Undefined

errorMessage(err, data) ==
    LET pathPrefix ==
            IF err.instancePath # <<>>
            THEN ReplaceSlashes(Slice1(err.instancePath)) \o <<" ">>
            ELSE <<>>
        actualValue == ActualValue(err, data)
        actualValueStr ==
            IF actualValue.t = "undefined" THEN "undefined"
            ELSE JSONStringify(actualValue)
        actualType == IF actualValue.t = "null" THEN "null" ELSE TypeOf(actualValue)
        allowed == [i \in 1..Len(err.params.allowedValues) |->
                        JSONStringify(Str(err.params.allowedValues[i]))]
        message ==
            CASE err.keyword = "type" /\ "type" \in DOMAIN err.params ->
                    <<"must be ", err.params.type, ", received ", actualType,
                      " (", actualValueStr, ")">>
              [] err.keyword = "enum" /\ "allowedValues" \in DOMAIN err.params ->
                    <<"must be one of [", Join(allowed, ", "), "], received ",
                      actualValueStr>>
              [] actualValue.t # "undefined" ->
                    <<err.message, ", received ", JSONStringify(actualValue)>>
              [] OTHER -> <<err.message>>
    IN pathPrefix \o message

-----------------------------------------------------------------------------
(* The errors of this layer (schema.ts) and of the routing layer (index.ts). *)
(* An error object is its class, its identity and message, and props: its   *)
(* own enumerable properties, which are what res.json writes.               *)

\* ValidationErrorParams that forgets the schema path
ValidationErrorParams_NoSchemaPath(errors) ==
    IF errors # <<>>
    THEN [instancePath |-> errors[1].instancePath]
    ELSE EmptyObject

ValidationErrorParams(errors) ==
    IF errors # <<>>
    THEN [instancePath |-> errors[1].instancePath, schemaPath |-> errors[1].schemaPath]
    ELSE EmptyObject

ValidationError(message, params) ==
    [class |-> "ValidationError",
     message |-> message,
     props |-> Spread([code |-> "validation",
                       type |-> "https://errors.loke.global/@loke/http-rpc/validation",
                       message |-> message],
                      params)]

ResponseValidationError(message, params) ==
    [class |-> "ResponseValidationError",
     message |-> message,
     props |-> Spread([code |-> "response-validation",
                       type |-> "https://errors.loke.global/@loke/http-rpc/response-validation",
                       message |-> message],
                      params)]

\* the error a failed request validation throws
RequestFailure(errors, args) ==
    ValidationError(IF errors # <<>> THEN errorMessage(errors[1], args)
                    ELSE <<"request schema validation error">>,
                    ValidationErrorParams(errors))

\* the error a failed response validation throws in strict mode
ResponseFailure(errors, result) ==
    ResponseValidationError(IF errors # <<>> THEN errorMessage(errors[1], result)
                            ELSE <<"response schema validation error">>,
                            ValidationErrorParams(errors))

-----------------------------------------------------------------------------
(* serviceWithSchema (schema.ts) *)

\* serviceMeta.definitions, which may be left out
Definitions(serviceMeta) ==
    IF "definitions" \in DOMAIN serviceMeta THEN serviceMeta.definitions ELSE <<>>

\* OrEmpty that takes a TypeDef left out to be the void TypeDef
OrEmpty_Void(methodMeta, key) ==
    IF key \in DOMAIN methodMeta THEN methodMeta[key] ELSE [metadata |-> [void |-> TRUE]]

\* methodMeta.requestTypeDef || {}
OrEmpty(methodMeta, key) ==
    IF key \in DOMAIN methodMeta THEN methodMeta[key] ELSE EmptyObject

\* RequestSchema without the additionalProperties default
RequestSchema_Strict(serviceMeta, methodMeta) ==
    Spread([definitions |-> Definitions(serviceMeta)],
           OrEmpty(methodMeta, "requestTypeDef"))

\* RequestSchema that defaults additionalProperties for a TypeDef with
\* optionalProperties too
RequestSchema_OptionalToo(serviceMeta, methodMeta) ==
    Spread(Spread([definitions |-> Definitions(serviceMeta)],
                  IF \/ "properties" \in DOMAIN OrEmpty(methodMeta, "requestTypeDef")
                     \/ "optionalProperties" \in DOMAIN OrEmpty(methodMeta, "requestTypeDef")
                  THEN [additionalProperties |-> TRUE]
                  ELSE EmptyObject),
           OrEmpty(methodMeta, "requestTypeDef"))

\* the schema handed to ajv.compile for the request of a method
RequestSchema(serviceMeta, methodMeta) ==
    Spread(Spread([definitions |-> Definitions(serviceMeta)],
                  IF "properties" \in DOMAIN OrEmpty(methodMeta, "requestTypeDef")
                  THEN [additionalProperties |-> TRUE]
                  ELSE EmptyObject),
           OrEmpty(methodMeta, "requestTypeDef"))

\* ResponseSchema with the additionalProperties default of the request
ResponseSchema_Liberal(serviceMeta, methodMeta) ==
    Spread(Spread([definitions |-> Definitions(serviceMeta)],
                  IF "properties" \in DOMAIN OrEmpty(methodMeta, "responseTypeDef")
                  THEN [additionalProperties |-> TRUE]
                  ELSE EmptyObject),
           OrEmpty(methodMeta, "responseTypeDef"))

\* the schema handed to ajv.compile for the response of a method
ResponseSchema(serviceMeta, methodMeta) ==
    Spread([definitions |-> Definitions(serviceMeta)],
           OrEmpty(methodMeta, "responseTypeDef"))

\* StrictResponseValidation with the default on in production only
StrictResponseValidation_OnInProduction(serviceMeta, nodeEnv) ==
    IF "strictResponseValidation" \in DOMAIN serviceMeta
    THEN serviceMeta.strictResponseValidation
    ELSE nodeEnv = "production"

\* const { strictResponseValidation = process.env.NODE_ENV !== "production" }
StrictResponseValidation(serviceMeta, nodeEnv) ==
    IF "strictResponseValidation" \in DOMAIN serviceMeta
    THEN serviceMeta.strictResponseValidation
    ELSE nodeEnv # "production"

\* Descriptor that writes the name only
Descriptor_NameOnly(methodName, methodMeta) == [methodName |-> methodName]

\* the descriptor pushed on serviceDetails.expose; a key whose value is
\* undefined is a key left out
Descriptor(methodName, methodMeta) ==
    Spread([methodName |-> methodName], methodMeta)

Threw(error) == [threw |-> TRUE, error |-> error]
Returned(value) == [threw |-> FALSE, value |-> value]

\* RegisterFrom that skips a method whose schemas do not compile and
\* registers the rest
RECURSIVE RegisterFrom_Partial(_, _, _, _, _, _)
RegisterFrom_Partial(i, service, serviceMeta, nodeEnv, implementation, expose) ==
    IF i > Len(serviceMeta.methods)
    THEN Returned([implementation |-> implementation,
                   meta |-> [service |-> serviceMeta.name,
                             definitions |-> Definitions(serviceMeta),
                             expose |-> expose]])
    ELSE
    LET methodName == serviceMeta.methods[i].k
        methodMeta == serviceMeta.methods[i].v
        requestSchema == RequestSchema(serviceMeta, methodMeta)
        responseSchema == ResponseSchema(serviceMeta, methodMeta)
    IN  IF ~CompileOk(requestSchema) \/ ~CompileOk(responseSchema)
           \/ methodName \notin service
        THEN RegisterFrom_Partial(i + 1, service, serviceMeta, nodeEnv,
                                  implementation, expose)
        ELSE RegisterFrom_Partial(i + 1, service, serviceMeta, nodeEnv,
                Append(implementation,
                       [k |-> methodName,
                        v |-> [requestSchema |-> requestSchema,
                               responseSchema |-> responseSchema,
                               endpoint |-> methodName,
                               strictResponseValidation |->
                                   StrictResponseValidation(serviceMeta, nodeEnv),
                               serviceName |-> serviceMeta.name]]),
                Append(expose, Descriptor(methodName, methodMeta)))

\* the loop over Object.entries(serviceMeta.methods), from entry i on, with
\* the implementation table and the expose list built so far
RECURSIVE RegisterFrom(_, _, _, _, _, _)
RegisterFrom(i, service, serviceMeta, nodeEnv, implementation, expose) ==
    IF i > Len(serviceMeta.methods)
    THEN Returned([implementation |-> implementation,
                   meta |-> [service |-> serviceMeta.name,
                             definitions |-> Definitions(serviceMeta),
                             expose |-> expose]])
    ELSE
    LET methodName == serviceMeta.methods[i].k
        methodMeta == serviceMeta.methods[i].v
        requestSchema == RequestSchema(serviceMeta, methodMeta)
        responseSchema == ResponseSchema(serviceMeta, methodMeta)
    IN  IF ~CompileOk(requestSchema)
        THEN Threw([class |-> "Error",
                    message |-> <<"failed to compile \"", methodName,
                                  "\" request schema: ",
                                  CompileErrorMessage(requestSchema)>>])
        ELSE IF ~CompileOk(responseSchema)
        THEN Threw([class |-> "Error",
                    message |-> <<"failed to compile \"", methodName,
                                  "\" response schema: ",
                                  CompileErrorMessage(responseSchema)>>])
        ELSE IF methodName \notin service
        \* service[methodName] is undefined: .bind throws
        THEN Threw([class |-> "TypeError",
                    message |-> <<"Cannot read properties of undefined (reading 'bind')">>])
        ELSE RegisterFrom(i + 1, service, serviceMeta, nodeEnv,
                Append(implementation,
                       [k |-> methodName,
                        v |-> [requestSchema |-> requestSchema,
                               responseSchema |-> responseSchema,
                               endpoint |-> methodName,
                               strictResponseValidation |->
                                   StrictResponseValidation(serviceMeta, nodeEnv),
                               serviceName |-> serviceMeta.name]]),
                Append(expose, Descriptor(methodName, methodMeta)))

\* CompiledFrom of a registration that compiles nothing and leaves the
\* compilation to the first call of each method
RECURSIVE CompiledFrom_Lazy(_, _, _, _)
CompiledFrom_Lazy(i, service, serviceMeta, compiled) == compiled

\* the validators ajv.compile returned during the loop over
\* Object.entries(serviceMeta.methods), from entry i on, in the order of
\* the calls: each with the method it was compiled for, its role and the
\* schema it was compiled from. The loop ends where RegisterFrom throws.
RECURSIVE CompiledFrom(_, _, _, _)
CompiledFrom(i, service, serviceMeta, compiled) ==
    IF i > Len(serviceMeta.methods)
    THEN compiled
    ELSE
    LET methodName == serviceMeta.methods[i].k
        methodMeta == serviceMeta.methods[i].v
        requestSchema == RequestSchema(serviceMeta, methodMeta)
        responseSchema == ResponseSchema(serviceMeta, methodMeta)
        request == [methodName |-> methodName, role |-> "request",
                    schema |-> requestSchema]
        response == [methodName |-> methodName, role |-> "response",
                     schema |-> responseSchema]
    IN  IF ~CompileOk(requestSchema)
        THEN compiled
        ELSE IF ~CompileOk(responseSchema)
        THEN Append(compiled, request)
        ELSE IF methodName \notin service
        THEN compiled \o <<request, response>>
        ELSE CompiledFrom(i + 1, service, serviceMeta,
                          compiled \o <<request, response>>)

\* serviceWithSchema that wraps every function of the service object,
\* declared or not
serviceWithSchema_EveryFunction(service, serviceMeta, nodeEnv) ==
    LET undeclared == service \ Keys(serviceMeta.methods)
        RECURSIVE AsEntries(_)
        AsEntries(names) ==
            IF names = {} THEN <<>>
            ELSE LET n == CHOOSE x \in names : TRUE
                 IN <<[k |-> n, v |-> EmptyObject]>> \o AsEntries(names \ {n})
    IN RegisterFrom(1, service,
                    [serviceMeta EXCEPT !.methods = @ \o AsEntries(undeclared)],
                    nodeEnv, <<>>, <<>>)

\* serviceWithSchema(service, serviceMeta): a ServiceSet, or the error thrown.
\* service is the set of names that are functions on the service object.
serviceWithSchema(service, serviceMeta, nodeEnv) ==
    RegisterFrom(1, service, serviceMeta, nodeEnv, <<>>, <<>>)

-----------------------------------------------------------------------------
(* contextServiceWithSchema (schema.ts) and requestContexts (common.ts). *)
(* The WeakMap is the set of its entries [key, value]; it compares keys by *)
(* identity, which for an object of the model is its id.                   *)

Ctx(n) == [t |-> "context", id |-> n]

\* WeakMap.prototype.set
WeakMapSet(map, key, value) ==
    {e \in map : e.key.id # key.id} \cup {[key |-> key, value |-> value]}

\* ContextFor that compares keys by their content
ContextFor_ByValue(map, args) ==
    IF args.t = "object" /\ \E e \in map : e.key.props = args.props
    THEN (CHOOSE e \in map : e.key.props = args.props).value
    ELSE Undefined

\* requestContexts.get(args): undefined for a key that is not an object
\* or has no entry
ContextFor(map, args) ==
    IF args.t = "object" /\ \E e \in map : e.key.id = args.id
    THEN (CHOOSE e \in map : e.key.id = args.id).value
    ELSE Undefined

\* new Error("missing request context")
MissingContext ==
    [class |-> "Error", message |-> <<"missing request context">>, props |-> EmptyObject]

\* AdapterCall that does not check what the lookup gave
AdapterCall_Unchecked(map, args) ==
    [threw |-> FALSE, delivered |-> <<ContextFor(map, args), args>>]

\* wrappedService[methodName](args) up to its call of
\* service[methodName](ctx, args): the arguments delivered to the real
\* method, or the error thrown before it is called
AdapterCall(map, args) ==
    LET ctx == ContextFor(map, args)
    IN  IF ~Truthy(ctx)
        THEN [threw |-> TRUE, error |-> MissingContext, delivered |-> <<>>]
        ELSE [threw |-> FALSE, delivered |-> <<ctx, args>>]

\* contextServiceWithSchema(service, serviceMeta): wrappedService has a
\* function for every key of serviceMeta.methods
contextServiceWithSchema(service, serviceMeta, nodeEnv) ==
    serviceWithSchema(Keys(serviceMeta.methods), serviceMeta, nodeEnv)

-----------------------------------------------------------------------------
(* createRequestHandler (index.ts) *)

\* Map.prototype.set
MapSet(map, key, value) ==
    [x \in (DOMAIN map) \cup {key} |-> IF x = key THEN value ELSE map[x]]

EmptyMap == [x \in {} |-> 0]

\* HandlersFrom that sets the root paths whether legacy or not
RECURSIVE HandlersFrom_LegacyAlways(_, _, _, _, _)
HandlersFrom_LegacyAlways(i, serviceSet, legacy, postHandlers, getHandlers) ==
    IF i > Len(serviceSet.meta.expose)
    THEN [postHandlers |-> postHandlers, getHandlers |-> getHandlers]
    ELSE
    LET serviceName == serviceSet.meta.service
        methodName == serviceSet.meta.expose[i].methodName
        path == "/" \o serviceName \o "/" \o methodName
        legacyPath == "/" \o methodName
        getHandler == [kind |-> "method", serviceName |-> serviceName,
                       methodName |-> methodName]
        postHandler == [serviceName |-> serviceName, methodName |-> methodName]
    IN HandlersFrom_LegacyAlways(i + 1, serviceSet, legacy,
            MapSet(MapSet(postHandlers, path, postHandler), legacyPath, postHandler),
            MapSet(MapSet(getHandlers, path, getHandler), legacyPath, getHandler))

\* the two handler tables after the loop over service.meta.expose from
\* entry i on
RECURSIVE HandlersFrom(_, _, _, _, _)
HandlersFrom(i, serviceSet, legacy, postHandlers, getHandlers) ==
    IF i > Len(serviceSet.meta.expose)
    THEN [postHandlers |-> postHandlers, getHandlers |-> getHandlers]
    ELSE
    LET serviceName == serviceSet.meta.service
        methodName == serviceSet.meta.expose[i].methodName
        path == "/" \o serviceName \o "/" \o methodName
        legacyPath == "/" \o methodName
        getHandler == [kind |-> "method", serviceName |-> serviceName,
                       methodName |-> methodName]
        postHandler == [serviceName |-> serviceName, methodName |-> methodName]
        gets == MapSet(getHandlers, path, getHandler)
        posts == MapSet(postHandlers, path, postHandler)
    IN HandlersFrom(i + 1, serviceSet, legacy,
                    IF legacy THEN MapSet(posts, legacyPath, postHandler) ELSE posts,
                    IF legacy THEN MapSet(gets, legacyPath, getHandler) ELSE gets)

\* the two handler tables after the loop over services from service j on
RECURSIVE ServicesFrom(_, _, _, _, _)
ServicesFrom(j, services, legacy, postHandlers, getHandlers) ==
    IF j > Len(services)
    THEN [postHandlers |-> postHandlers, getHandlers |-> getHandlers]
    ELSE
    LET serviceName == services[j].meta.service
        tables == HandlersFrom(1, services[j], legacy, postHandlers,
                               MapSet(getHandlers, "/" \o serviceName,
                                      [kind |-> "service", serviceName |-> serviceName]))
    IN ServicesFrom(j + 1, services, legacy, tables.postHandlers, tables.getHandlers)

\* createRequestHandler that takes any number of services in legacy mode
createRequestHandler_AnyCount(services, legacy) ==
    Returned(ServicesFrom(1, services, legacy, EmptyMap,
                          MapSet(EmptyMap, "/", [kind |-> "services"])))

\* createRequestHandler(services, {legacy}): the handler tables of the
\* middleware it returns, or the error it throws
createRequestHandler(services, legacy) ==
    IF legacy /\ Len(services) # 1
    THEN Threw([class |-> "Error",
                message |-> <<"Only 1 service is supported in legacy mode">>])
    ELSE Returned(ServicesFrom(1, services, legacy, EmptyMap,
                               MapSet(EmptyMap, "/", [kind |-> "services"])))

\* the handler the returned middleware picks for a request
PickHandler(handlers, httpMethod, path) ==
    CASE httpMethod = "GET" /\ path \in DOMAIN handlers.getHandlers ->
            [found |-> TRUE, table |-> "get", handler |-> handlers.getHandlers[path]]
      [] httpMethod = "POST" /\ path \in DOMAIN handlers.postHandlers ->
            [found |-> TRUE, table |-> "post", handler |-> handlers.postHandlers[path]]
      [] OTHER -> [found |-> FALSE]

RpcError(serviceName, methodName, inner) ==
    [class |-> "RpcError", serviceName |-> serviceName, methodName |-> methodName,
     inner |-> inner]

-----------------------------------------------------------------------------
(* createErrorHandler (index.ts).  A body is the object res.json writes:   *)
(* JSON leaves out a property whose value is undefined.                    *)

\* err.inner.type and err.inner.code: own properties of the inner error
HasType(inner) == "type" \in DOMAIN inner.props /\ inner.props.type # ""
HasCode(inner) == "code" \in DOMAIN inner.props

\* {message: err.inner.message, code: err.inner.code}
LegacyBody(inner) ==
    IF HasCode(inner)
    THEN [message |-> inner.message, code |-> inner.props.code]
    ELSE [message |-> inner.message]

\* createErrorHandler that serialises every inner error in full
createErrorHandler_AlwaysFull(err) ==
    IF err.class # "RpcError"
    THEN [status |-> 500, body |-> [message |-> err.message]]
    ELSE [status |-> 400, body |-> err.inner.props]

\* the middleware createErrorHandler() returns: the status and the body it
\* answers err with
createErrorHandler(err) ==
    IF err.class # "RpcError"
    THEN [status |-> 500, body |-> [message |-> err.message]]
    ELSE IF ~HasType(err.inner)
    THEN [status |-> 400, body |-> LegacyBody(err.inner)]
    ELSE [status |-> 400, body |-> err.inner.props]

-----------------------------------------------------------------------------
(* The applications explored: services, request bodies and results. *)

\* the most calls in flight (suspended at the implementation await) at once
MaxInFlight == 1

E(k, v) == [k |-> k, v |-> v]

voidSchema == [metadata |-> [void |-> TRUE]]

TString == [type |-> "string"]
UserDef == [properties |-> <<E("name", TString)>>]
UserDefinitions == <<E("User", UserDef)>>

BarRequest ==
    [properties |-> <<E("message", TString), E("user", [ref |-> "User"])>>,
     optionalProperties |-> <<E("thing", EmptyObject)>>]

User(name) == Obj(2, <<E("name", name)>>)

\* what the implementations of the repository's test services resolve with
Results ==
    { Obj(3, <<E("name", Str("b"))>>),
      Obj(3, <<E("username", Num(123))>>),
      Str("ok"),
      Undefined }

\* each application: the names that are functions on the service object,
\* the serviceMeta given to serviceWithSchema, NODE_ENV, the legacy option
\* given to createRequestHandler, what its implementations may resolve
\* with, and the request bodies its clients send
Apps ==
    { [service |-> {"bar", "noSchema", "unlisted"},
       nodeEnv |-> env,
       legacy |-> FALSE,
       serviceMeta |->
         [name |-> "service1",
          definitions |-> UserDefinitions,
          methods |-> <<E("bar", [requestTypeDef |-> BarRequest,
                                  responseTypeDef |-> [ref |-> "User"]]),
                        E("noSchema", EmptyObject)>>],
       results |-> Results,
       bodies |->
         { Obj(1, <<E("message", Str("a")), E("user", User(Str("b")))>>),
           Obj(1, <<E("message", Str("a")), E("user", User(Str("b"))),
                    E("extra", Num(1))>>),
           Obj(1, <<E("message", Str("a")), E("user", User(Num(1)))>>),
           Obj(1, <<E("message", Num(1)), E("user", User(Num(1)))>>),
           Undefined }] : env \in {"production", "test"} }
    \cup
    { [service |-> {"opt", "voidSchema", "unlisted"},
       nodeEnv |-> IF strict THEN "production" ELSE "test",
       legacy |-> TRUE,
       serviceMeta |->
         [name |-> "service2",
          definitions |-> UserDefinitions,
          strictResponseValidation |-> strict,
          methods |-> <<E("opt", [requestTypeDef |->
                                    [optionalProperties |-> <<E("user", [ref |-> "User"])>>],
                                  responseTypeDef |-> TString,
                                  help |-> "optional user"]),
                        E("voidSchema", [responseTypeDef |-> voidSchema])>>],
       results |-> Results,
       bodies |->
         { Obj(1, <<E("user", User(Str("b")))>>),
           Obj(1, <<E("user", User(Str("b"))), E("extra", Num(1))>>),
           Obj(1, <<>>) }] : strict \in BOOLEAN }
    \cup
    { [service |-> {"pick", "exact"},
       nodeEnv |-> "test",
       legacy |-> FALSE,
       serviceMeta |->
         [name |-> "service3",
          strictResponseValidation |-> TRUE,
          methods |-> <<E("pick", [requestTypeDef |-> [enum |-> <<"A", "B">>],
                                   responseTypeDef |-> UserDef,
                                   methodTimeout |-> 5]),
                        E("exact", [requestTypeDef |->
                                      [properties |-> <<E("name", TString)>>,
                                       additionalProperties |-> FALSE]])>>],
       results |-> Results,
       bodies |->
         { Obj(1, <<E("name", Str("b"))>>),
           Obj(1, <<E("name", Str("b")), E("extra", Num(1))>>),
           Str("A"),
           Str("C") }] }
    \cup
    \* one TypeDef for the request and for the response of a method
    { [service |-> {"echo"},
       nodeEnv |-> "test",
       legacy |-> FALSE,
       serviceMeta |->
         [name |-> "service7",
          methods |-> <<E("echo", [requestTypeDef |-> UserDef,
                                   responseTypeDef |-> UserDef])>>],
       results |->
         { Obj(3, <<E("name", Str("b"))>>),
           Obj(3, <<E("name", Str("b")), E("extra", Num(1))>>),
           Obj(3, <<E("username", Num(123))>>),
           Obj(3, <<E("name", Num(1))>>) },
       bodies |->
         { Obj(1, <<E("name", Str("b"))>>),
           Obj(1, <<E("name", Str("b")), E("extra", Num(1))>>),
           Obj(1, <<E("name", Num(1))>>),
           Obj(1, <<E("name", Null)>>) }] }
    \cup
    \* a void method and the results the README says it rejects
    { [service |-> {"nothing", "anything", "say"},
       nodeEnv |-> "test",
       legacy |-> FALSE,
       serviceMeta |->
         [name |-> "service8",
          strictResponseValidation |-> TRUE,
          methods |-> <<E("nothing", [responseTypeDef |-> voidSchema]),
                        E("anything", [requestTypeDef |-> EmptyObject,
                                       responseTypeDef |-> EmptyObject]),
                        E("say", [requestTypeDef |-> TString])>>],
       results |-> { Undefined, Null, Num(1), Obj(3, <<>>) },
       bodies |-> { Undefined, Num(1), Str("hi"), Obj(1, <<>>) }] }
    \cup
    \* a ref that names no definition, after a method that compiles
    { [service |-> {"bar", "lost"},
       nodeEnv |-> "test",
       legacy |-> FALSE,
       serviceMeta |->
         [name |-> "service4",
          definitions |-> UserDefinitions,
          methods |-> <<E("bar", [requestTypeDef |-> BarRequest]),
                        E("lost", [requestTypeDef |-> [ref |-> "Missing"]])>>],
       results |-> Results,
       bodies |-> {Undefined}] }
    \cup
    \* a malformed response TypeDef, after a method that compiles
    { [service |-> {"bar", "odd"},
       nodeEnv |-> "test",
       legacy |-> FALSE,
       serviceMeta |->
         [name |-> "service5",
          definitions |-> UserDefinitions,
          methods |-> <<E("bar", [requestTypeDef |-> BarRequest]),
                        E("odd", [responseTypeDef |-> [type |-> "strng"]])>>],
       results |-> Results,
       bodies |-> {Undefined}] }
    \cup
    \* a declared method the service object has no function for
    { [service |-> {"bar"},
       nodeEnv |-> "test",
       legacy |-> FALSE,
       serviceMeta |->
         [name |-> "service6",
          definitions |-> UserDefinitions,
          methods |-> <<E("bar", [requestTypeDef |-> BarRequest]),
                        E("ghost", EmptyObject)>>],
       results |-> Results,
       bodies |-> {Undefined}] }

\* what an implementation may throw or reject with: a plain Error, and an
\* error that carries a code and a type of its own
BusinessErrors ==
    { [class |-> "Error", message |-> <<"boom">>, props |-> EmptyObject],
      [class |-> "NotFound", message |-> <<"no such user">>,
       props |-> [code |-> "not_found", type |-> "https://errors.example/not-found",
                  message |-> <<"no such user">>]] }

HttpMethods == {"GET", "POST", "PUT"}

\* the service of the routing tests: one method, hello, without schemas
HelloService ==
    serviceWithSchema({"hello"},
                      [name |-> "hello-service",
                       methods |-> <<E("hello", EmptyObject)>>],
                      "test").value

\* what the implementations of the error-handler tests throw: a basic
\* error, an error with a code, and an error with a type that carries more
HandlerErrors ==
    { [class |-> "Error", message |-> <<"This is a basic error">>, props |-> EmptyObject],
      [class |-> "Error", message |-> <<"This is a code error">>,
       props |-> [code |-> "CODE_ERROR"]],
      [class |-> "CustomError", message |-> <<"LOKE Error">>,
       props |-> [message |-> <<"LOKE Error">>, code |-> "my_code", type |-> "my_code",
                  something |-> "else"]] }

\* what a middleware before the request handler may pass on: the error of
\* a body that does not parse, which has a type of its own
ForeignErrors ==
    { [class |-> "SyntaxError", message |-> <<"Unexpected token">>,
       props |-> [type |-> "entity.parse.failed", status |-> 400]],
      [class |-> "Error", message |-> <<"aborted">>, props |-> EmptyObject] }

\* the applications of the routing and error-handler tests: what they hand
\* to createRequestHandler is their own registered service (own) and the
\* hello service, in legacy mode or not
HandlerApps ==
    { [service |-> {"greet"},
       nodeEnv |-> "test",
       legacy |-> mount.legacy,
       mounted |-> mount.services,
       serviceMeta |->
         [name |-> "service9",
          methods |-> <<E("greet", [requestTypeDef |->
                                      [properties |-> <<E("msg", TString)>>]])>>],
       errors |-> HandlerErrors,
       results |-> { Str("success world") },
       bodies |-> { Obj(1, <<E("msg", Str("world"))>>),
                    Obj(1, <<E("msg", Num(1))>>) }] :
      mount \in
        { [legacy |-> TRUE, services |-> <<[own |-> TRUE, serviceSet |-> HelloService]>>],
          [legacy |-> TRUE, services |-> <<[own |-> TRUE, serviceSet |-> HelloService],
                                          [own |-> FALSE, serviceSet |-> HelloService]>>],
          [legacy |-> TRUE, services |-> <<>>],
          [legacy |-> FALSE, services |-> <<[own |-> TRUE, serviceSet |-> HelloService],
                                           [own |-> FALSE, serviceSet |-> HelloService]>>] } }

\* the TypeDefs of the union tests
ConfigMapping ==
    [discriminator |-> "type",
     mapping |-> <<E("kounta", [properties |-> <<E("apiKey", TString)>>]),
                   E("zonal", [properties |-> <<E("token", TString)>>])>>]

ValueDefinitions ==
    << E("StringValue", [properties |-> <<E("type", [enum |-> <<"string">>]),
                                          E("value", TString)>>]),
       E("NumberValue", [properties |-> <<E("type", [enum |-> <<"number">>]),
                                          E("value", [type |-> "float64"])>>]),
       E("ConfigValue", [metadata |->
                            [union |-> <<[ref |-> "StringValue"],
                                         [ref |-> "NumberValue"]>>]]) >>

Config(props) == Obj(1, <<E("config", Obj(2, props))>>)

\* the applications of the union tests, and an application whose methods
\* take the same properties at the root of the request TypeDef, nested in
\* it, behind a ref, as optional properties and with additionalProperties
\* false
SchemaApps ==
    { [service |-> {"updateConfig"},
       nodeEnv |-> "test",
       legacy |-> FALSE,
       serviceMeta |->
         [name |-> "configService",
          methods |-> <<E("updateConfig",
                          [requestTypeDef |->
                              [properties |-> <<E("config", ConfigMapping)>>]])>>],
       results |-> { Obj(3, <<E("success", Bool(TRUE))>>) },
       bodies |->
         { Config(<<E("type", Str("kounta")), E("apiKey", Str("test-key-123"))>>),
           Config(<<E("type", Str("invalid")), E("someField", Str("value"))>>),
           Config(<<E("type", Str("kounta"))>>),
           Config(<<E("type", Str("zonal")), E("token", Num(123))>>) }],
      [service |-> {"updateValue"},
       nodeEnv |-> "test",
       legacy |-> FALSE,
       serviceMeta |->
         [name |-> "configService",
          definitions |-> ValueDefinitions,
          methods |-> <<E("updateValue",
                          [requestTypeDef |->
                              [properties |-> <<E("config", [ref |-> "ConfigValue"])>>]])>>],
       results |-> { Obj(3, <<E("success", Bool(TRUE))>>) },
       bodies |->
         { Config(<<E("type", Str("string")), E("value", Str("test"))>>),
           Config(<<E("type", Str("number")), E("value", Num(42))>>),
           Config(<<E("type", Str("invalid")), E("value", Str("test"))>>),
           Config(<<E("type", Str("string")), E("value", Num(123))>>) }],
      [service |-> {"atRoot", "nested", "viaRef", "rootRef", "optOnly", "exact"},
       nodeEnv |-> "test",
       legacy |-> FALSE,
       serviceMeta |->
         [name |-> "service10",
          definitions |-> UserDefinitions,
          methods |->
            << E("atRoot", [requestTypeDef |-> UserDef]),
               E("nested", [requestTypeDef |-> [properties |-> <<E("user", UserDef)>>]]),
               E("viaRef", [requestTypeDef |->
                              [properties |-> <<E("user", [ref |-> "User"])>>]]),
               E("rootRef", [requestTypeDef |-> [ref |-> "User"]]),
               E("optOnly", [requestTypeDef |->
                               [optionalProperties |-> <<E("name", TString)>>]]),
               E("exact", [requestTypeDef |->
                             [properties |-> <<E("name", TString)>>,
                              additionalProperties |-> FALSE]]) >>],
       results |-> { Str("ok") },
       bodies |->
         { Obj(1, <<E("name", Str("b"))>>),
           Obj(1, <<E("name", Str("b")), E("extra", Num(1))>>),
           Obj(1, <<E("user", User(Str("b"))), E("extra", Num(1))>>),
           Obj(1, <<E("user", Obj(2, <<E("name", Str("b")), E("extra", Num(1))>>))>>) }] }

\* the applications whose service is registered with
\* contextServiceWithSchema; contexts are what their routing layer may
\* associate with a request body.  The first is that of the context test:
\* two of its bodies have the same content and are different objects.
ContextApps ==
    { [service |-> {"bar"},
       nodeEnv |-> "test",
       legacy |-> FALSE,
       serviceMeta |->
         [name |-> "service1",
          definitions |-> UserDefinitions,
          methods |-> <<E("bar", [requestTypeDef |-> BarRequest,
                                  responseTypeDef |-> [ref |-> "User"]])>>],
       contexts |-> {Ctx(1), Ctx(2)},
       results |-> { Obj(2, <<E("name", Str("1"))>>),
                     Obj(3, <<E("username", Num(123))>>) },
       bodies |->
         { Obj(1, <<E("message", Str("world")), E("user", User(Str("1")))>>),
           Obj(4, <<E("message", Str("world")), E("user", User(Str("1")))>>),
           Obj(5, <<E("message", Num(1)), E("user", User(Str("1")))>>) }],
      \* a declared method the service object has no function for
      [service |-> {"bar"},
       nodeEnv |-> "test",
       legacy |-> FALSE,
       serviceMeta |->
         [name |-> "service6",
          definitions |-> UserDefinitions,
          methods |-> <<E("bar", [requestTypeDef |-> BarRequest]),
                        E("ghost", EmptyObject)>>],
       contexts |-> {Ctx(1)},
       results |-> { Str("ok") },
       bodies |->
         { Obj(1, <<E("message", Str("world")), E("user", User(Str("1")))>>) }] }

-----------------------------------------------------------------------------
(* The wrapped method: implementation[methodName] of serviceWithSchema. *)

\* JSON.stringify of the params of a failure
ParamsJSON(params) ==
    CASE "allowedValues" \in DOMAIN params ->
            "{\"allowedValues\":["
            \o Join([i \in 1..Len(params.allowedValues) |->
                        JSONStringify(Str(params.allowedValues[i]))], ",")
            \o "]}"
      [] "missingProperty" \in DOMAIN params ->
            "{\"error\":\"missing\",\"missingProperty\":\""
            \o params.missingProperty \o "\"}"
      [] "additionalProperty" \in DOMAIN params ->
            "{\"error\":\"additional\",\"additionalProperty\":\""
            \o params.additionalProperty \o "\"}"
      [] "type" \in DOMAIN params ->
            "{\"type\":\"" \o params.type \o "\",\"nullable\":"
            \o (IF params.nullable THEN "true" ELSE "false") \o "}"
      [] "tag" \in DOMAIN params ->
            "{\"error\":\"" \o params.error \o "\",\"tag\":\"" \o params.tag \o "\""
            \o (IF params.tagValue.t = "undefined" THEN ""
                ELSE ",\"tagValue\":" \o JSONStringify(params.tagValue))
            \o "}"
      [] OTHER -> "{}"

\* JSON.stringify(errors) for the failure list of a validator
ErrorsJSON(errors) ==
    "[" \o Join([i \in 1..Len(errors) |->
                    "{\"instancePath\":\"" \o Flat(errors[i].instancePath)
                    \o "\",\"schemaPath\":\"" \o Flat(errors[i].schemaPath)
                    \o "\",\"keyword\":\"" \o errors[i].keyword
                    \o "\",\"params\":" \o ParamsJSON(errors[i].params)
                    \o ",\"message\":\"" \o errors[i].message \o "\"}"], ",")
    \o "]"

\* LogLine that names the service only
LogLine_NoMethod(serviceName, methodName, errors) ==
    <<"rpc response schema validation errors: ", serviceName, " ",
      ErrorsJSON(errors)>>

\* the text handed to logger.error in lenient mode
LogLine(serviceName, methodName, errors) ==
    <<"rpc response schema validation errors: ", serviceName, ".", methodName,
      " ", ErrorsJSON(errors)>>

\* RequestErrors that takes objects only, whatever the schema
RequestErrors_ObjectsOnly(wrapped, args) ==
    IF args.t # "object"
    THEN << ErrorObject(<<>>, <<"/", "properties">>, "properties",
                        [type |-> "object", nullable |-> FALSE], "must be object") >>
    ELSE RunValidator(wrapped.requestSchema, args)

\* requestSchema(args): the failures of the request
RequestErrors(wrapped, args) == RunValidator(wrapped.requestSchema, args)

\* EndpointArgs that hands over a copy of an object argument
EndpointArgs_Copy(args) ==
    IF args.t = "object" THEN [args EXCEPT !.id = 0] ELSE args

\* the arguments the wrapper hands to endpoint
EndpointArgs(args) == args

\* WrappedStart with the endpoint invoked before the request is validated
WrappedStart_InvokeFirst(wrapped, args) ==
    LET errors == RunValidator(wrapped.requestSchema, args)
    IN  IF errors # <<>>
        THEN [invoked |-> <<args>>,
              trace |-> <<"endpoint", "requestSchema">>,
              outcome |-> Threw(RequestFailure(errors, args))]
        ELSE [invoked |-> <<args>>,
              trace |-> <<"endpoint", "requestSchema">>]

\* the call from its start to the await of endpoint(args): either it has
\* thrown the request's ValidationError, or it has invoked the endpoint
WrappedStart(wrapped, args) ==
    LET errors == RequestErrors(wrapped, args)
    IN  IF errors # <<>>
        THEN [invoked |-> <<>>,
              trace |-> <<"requestSchema">>,
              outcome |-> Threw(RequestFailure(errors, args))]
        ELSE [invoked |-> <<EndpointArgs(args)>>,
              trace |-> <<"requestSchema", "endpoint">>]

\* WrappedResume that never throws: it logs and returns in strict mode too
WrappedResume_Lenient(wrapped, methodName, result) ==
    LET errors == RunValidator(wrapped.responseSchema, result)
    IN  IF errors # <<>>
        THEN [trace |-> <<"responseSchema", "logger.error">>,
              logs |-> <<<<"rpc response schema validation errors: ",
                           wrapped.serviceName, ".", methodName, " ",
                           ErrorsJSON(errors)>>>>,
              outcome |-> Returned(result)]
        ELSE [trace |-> <<"responseSchema">>, logs |-> <<>>,
              outcome |-> Returned(result)]

\* the call from the resolution of the endpoint's promise to its end
WrappedResume(wrapped, methodName, result) ==
    LET errors == RunValidator(wrapped.responseSchema, result)
    IN  IF errors # <<>>
        THEN IF wrapped.strictResponseValidation
             THEN [trace |-> <<"responseSchema">>, logs |-> <<>>,
                   outcome |-> Threw(ResponseFailure(errors, result))]
             ELSE [trace |-> <<"responseSchema", "logger.error">>,
                   logs |-> <<LogLine(wrapped.serviceName, methodName, errors)>>,
                   outcome |-> Returned(result)]
        ELSE [trace |-> <<"responseSchema">>, logs |-> <<>>,
              outcome |-> Returned(result)]

\* WrappedRethrow that wraps the business error in an error of this layer
WrappedRethrow_Wrapping(error) ==
    [trace |-> <<>>, logs |-> <<>>,
     outcome |-> Threw([class |-> "Error", message |-> error.message,
                        props |-> [code |-> "internal", message |-> error.message]])]

\* WrappedRethrow that invokes the endpoint once more before it gives up
WrappedRethrow_Retry(error) ==
    [trace |-> <<"endpoint">>, logs |-> <<>>, outcome |-> Threw(error)]

\* the call when the endpoint throws or its promise rejects: the await
\* rethrows
WrappedRethrow(error) ==
    [trace |-> <<>>, logs |-> <<>>, outcome |-> Threw(error)]

\* what postHandler does with the settled call: res.json(result), or
\* next(new RpcError(serviceName, methodName, err))
PostResponse(handler, outcome) ==
    IF outcome.threw
    THEN [kind |-> "next",
          error |-> RpcError(handler.serviceName, handler.methodName, outcome.error)]
    ELSE [kind |-> "json", body |-> outcome.value]

-----------------------------------------------------------------------------
(* The state machine. *)

VARIABLES
    app,            \* the application: service object, serviceMeta, NODE_ENV, legacy
    registration,   \* what serviceWithSchema did: not yet run, a ServiceSet, or a throw
    handlers,       \* the handler tables of createRequestHandler, once created
    inflight,       \* the bag of calls suspended at the await of their endpoint
    last,           \* the request that completed last, with all that happened in it
    requestContexts, \* the WeakMap of common.ts: a context per request body
    validatorErrors, \* the errors property of each compiled validator, where
                    \* the validators are taken as the objects they are
                    \* (ConcurrentSpec); elsewhere a validator is the function
                    \* RunValidator and this stays empty
    running         \* the calls in the middle of a synchronous stretch of the
                    \* wrapped method (ConcurrentSpec); elsewhere a stretch is
                    \* one step

vars == <<app, registration, handlers, inflight, last, requestContexts,
          validatorErrors, running>>

NoOutcome == [threw |-> FALSE, none |-> TRUE]

NoRequest ==
    [kind |-> "none", httpMethod |-> "", path |-> "", body |-> Undefined,
     routed |-> "none", methodName |-> "", trace |-> <<>>, invoked |-> <<>>,
     associated |-> {}, delivered |-> <<>>,
     settled |-> [kind |-> "none"], logs |-> <<>>, outcome |-> NoOutcome,
     res |-> [kind |-> "none"], reply |-> [kind |-> "none"]]

\* every method name a request may ask for
MethodNames == app.service \cup Keys(app.serviceMeta.methods)

\* the paths of the methods of the other services the application mounts
OtherPaths ==
    IF "mounted" \in DOMAIN app
    THEN UNION {{"/" \o x.serviceSet.meta.service \o "/" \o d.methodName :
                    d \in {x.serviceSet.meta.expose[i] :
                                i \in 1..Len(x.serviceSet.meta.expose)}} :
                x \in {y \in {app.mounted[i] : i \in 1..Len(app.mounted)} : ~y.own}}
    ELSE {}

Paths ==
    {"/", "/" \o app.serviceMeta.name}
    \cup {"/" \o app.serviceMeta.name \o "/" \o m : m \in MethodNames}
    \cup {"/" \o m : m \in MethodNames}
    \cup OtherPaths
    \cup {"/other/bar"}

\* the services the application hands to createRequestHandler: its
\* registered service alone, unless the application says otherwise
Mounted ==
    IF "mounted" \in DOMAIN app
    THEN [i \in 1..Len(app.mounted) |->
            IF app.mounted[i].own THEN registration.serviceSet
            ELSE app.mounted[i].serviceSet]
    ELSE <<registration.serviceSet>>

\* the wrapped method of a post handler: service.implementation[methodName]
\* of the service the handler was made for
Wrapped(handler) ==
    LET service == CHOOSE s \in {Mounted[i] : i \in 1..Len(Mounted)} :
                        s.meta.service = handler.serviceName
    IN Get(service.implementation, handler.methodName)

\* what the implementations of the application may throw or reject with
Errors == IF "errors" \in DOMAIN app THEN app.errors ELSE BusinessErrors

\* the answer of the error handler mounted after the request handler, when
\* the request handler passed an error on
ErrorReply(res) ==
    IF res.kind = "next" /\ "error" \in DOMAIN res
    THEN Spread([kind |-> "error"], createErrorHandler(res.error))
    ELSE [kind |-> "none"]

\* the service is registered with contextServiceWithSchema
ContextService == "contexts" \in DOMAIN app

\* service[methodName](ctx, args) for a name the service object has no
\* function for
NotAFunction ==
    [class |-> "TypeError", message |-> <<"service[methodName] is not a function">>,
     props |-> EmptyObject]

\* the arguments the service's own method is called with by endpoint(args),
\* or the error thrown before it is called: the adapter of a context
\* service finds no context, or finds no function to call
EndpointCall(methodName, args) ==
    IF ContextService
    THEN IF AdapterCall(requestContexts, args).threw
         THEN AdapterCall(requestContexts, args)
         ELSE IF methodName \notin app.service
         THEN [threw |-> TRUE, error |-> NotAFunction, delivered |-> <<>>]
         ELSE AdapterCall(requestContexts, args)
    ELSE [threw |-> FALSE, delivered |-> <<args>>]

Init ==
    /\ app \in Apps
    /\ registration = [state |-> "start"]
    /\ handlers = [created |-> FALSE]
    /\ inflight = EmptyBag
    /\ last = NoRequest
    /\ requestContexts = {}
    /\ validatorErrors = EmptyMap
    /\ running = {}

\* the application registers its service
Register ==
    /\ registration.state = "start"
    /\ LET r == IF ContextService
                THEN contextServiceWithSchema(app.service, app.serviceMeta, app.nodeEnv)
                ELSE serviceWithSchema(app.service, app.serviceMeta, app.nodeEnv)
           wrappedService == IF ContextService
                             THEN Keys(app.serviceMeta.methods)
                             ELSE app.service
           compiled == CompiledFrom(1, wrappedService, app.serviceMeta, <<>>)
       IN registration' = IF r.threw
                          THEN [state |-> "failed", error |-> r.error,
                                compiled |-> compiled]
                          ELSE [state |-> "registered", serviceSet |-> r.value,
                                compiled |-> compiled]
    /\ UNCHANGED <<app, handlers, inflight, last, requestContexts, validatorErrors, running>>

\* the application builds the request handler for its services
CreateHandler ==
    /\ registration.state = "registered"
    /\ handlers = [created |-> FALSE]
    /\ LET r == createRequestHandler(Mounted, app.legacy)
       IN  /\ ~r.threw
           /\ handlers' = Spread([created |-> TRUE], r.value)
    /\ UNCHANGED <<app, registration, inflight, last, requestContexts, validatorErrors, running>>

\* the application builds the request handler and createRequestHandler
\* throws: there is no middleware to take requests
CreateHandlerThrows ==
    /\ registration.state = "registered"
    /\ handlers = [created |-> FALSE]
    /\ LET r == createRequestHandler(Mounted, app.legacy)
       IN  /\ r.threw
           /\ handlers' = [created |-> FALSE, error |-> r.error]
    /\ UNCHANGED <<app, registration, inflight, last, requestContexts, validatorErrors, running>>

\* a request no handler is registered for: next()
RequestUnrouted(httpMethod, path) ==
    /\ handlers.created
    /\ ~PickHandler(handlers, httpMethod, path).found
    /\ last' = [NoRequest EXCEPT !.kind = "request", !.httpMethod = httpMethod,
                                 !.path = path, !.res = [kind |-> "next"]]
    /\ UNCHANGED <<app, registration, handlers, inflight, requestContexts, validatorErrors, running>>

\* a GET of a registered path: the metadata as JSON
RequestGet(path) ==
    LET picked == PickHandler(handlers, "GET", path)
    IN  /\ handlers.created
        /\ picked.found
        /\ last' = [NoRequest EXCEPT !.kind = "request", !.httpMethod = "GET",
                                     !.path = path, !.routed = "get",
                                     !.res = [kind |-> "json", meta |-> picked.handler]]
        /\ UNCHANGED <<app, registration, handlers, inflight, requestContexts, validatorErrors, running>>

\* the request as postHandler has just taken it; associated is what
\* requestContexts holds for this very body at that time
Posted(path, body, handler) ==
    [NoRequest EXCEPT !.kind = "request", !.httpMethod = "POST", !.path = path,
                      !.body = body, !.routed = "post",
                      !.methodName = handler.methodName,
                      !.associated = {e.value : e \in {x \in requestContexts : x.key = body}}]

\* a POST whose body fails the request validator: the call throws at once
RequestPostInvalid(path, body) ==
    LET picked == PickHandler(handlers, "POST", path)
        start == WrappedStart(Wrapped(picked.handler), body)
    IN  /\ handlers.created
        /\ picked.found
        /\ start.invoked = <<>>
        /\ last' = [Posted(path, body, picked.handler) EXCEPT
                        !.trace = start.trace,
                        !.outcome = start.outcome,
                        !.res = PostResponse(picked.handler, start.outcome),
                        !.reply = ErrorReply(PostResponse(picked.handler, start.outcome))]
        /\ UNCHANGED <<app, registration, handlers, inflight, requestContexts, validatorErrors, running>>

\* a POST whose endpoint throws before it returns a promise
RequestPostThrows(path, body, error) ==
    LET picked == PickHandler(handlers, "POST", path)
        start == WrappedStart(Wrapped(picked.handler), body)
        rest == WrappedRethrow(error)
    IN  /\ handlers.created
        /\ picked.found
        /\ start.invoked # <<>>
        /\ ~EndpointCall(picked.handler.methodName, body).threw
        /\ last' = [Posted(path, body, picked.handler) EXCEPT
                        !.trace = start.trace \o rest.trace,
                        !.invoked = start.invoked,
                        !.delivered = EndpointCall(picked.handler.methodName, body).delivered,
                        !.settled = [kind |-> "threw", error |-> error],
                        !.logs = rest.logs,
                        !.outcome = rest.outcome,
                        !.res = PostResponse(picked.handler, rest.outcome),
                        !.reply = ErrorReply(PostResponse(picked.handler, rest.outcome))]
        /\ UNCHANGED <<app, registration, handlers, inflight, requestContexts, validatorErrors, running>>

\* a POST whose endpoint returns: the call is suspended at its await
RequestPostAwaits(path, body) ==
    LET picked == PickHandler(handlers, "POST", path)
        start == WrappedStart(Wrapped(picked.handler), body)
    IN  /\ handlers.created
        /\ picked.found
        /\ start.invoked # <<>>
        /\ ~EndpointCall(picked.handler.methodName, body).threw
        /\ BagCardinality(inflight) < MaxInFlight
        /\ inflight' = inflight (+) SetToBag({
                            [handler |-> picked.handler,
                             request |-> [Posted(path, body, picked.handler) EXCEPT
                                             !.trace = start.trace,
                                             !.invoked = start.invoked,
                                             !.delivered = EndpointCall(picked.handler.methodName, body).delivered]]})
        /\ UNCHANGED <<app, registration, handlers, last, requestContexts, validatorErrors, running>>

\* a POST to a context service whose body has no context, or whose method
\* the service object has no function for: the adapter throws and the
\* await rethrows
RequestPostNoContext(path, body) ==
    LET picked == PickHandler(handlers, "POST", path)
        start == WrappedStart(Wrapped(picked.handler), body)
        call == EndpointCall(picked.handler.methodName, body)
        rest == WrappedRethrow(call.error)
    IN  /\ handlers.created
        /\ picked.found
        /\ start.invoked # <<>>
        /\ call.threw
        /\ last' = [Posted(path, body, picked.handler) EXCEPT
                        !.trace = start.trace \o rest.trace,
                        !.invoked = start.invoked,
                        !.delivered = call.delivered,
                        !.settled = [kind |-> "rejected", error |-> call.error],
                        !.logs = rest.logs,
                        !.outcome = rest.outcome,
                        !.res = PostResponse(picked.handler, rest.outcome),
                        !.reply = ErrorReply(PostResponse(picked.handler, rest.outcome))]
        /\ UNCHANGED <<app, registration, handlers, inflight, requestContexts, validatorErrors, running>>

\* the routing layer of a context service associates a context with the
\* body of a request before the call is dispatched
Associate(body, ctx) ==
    /\ ContextService
    /\ handlers.created
    /\ body.t = "object"
    /\ requestContexts' = WeakMapSet(requestContexts, body, ctx)
    /\ UNCHANGED <<app, registration, handlers, inflight, last, validatorErrors, running>>

\* the endpoint's promise resolves with result and the call runs to its end
EndpointResolves(call, result) ==
    /\ BagIn(call, inflight)
    /\ LET rest == WrappedResume(Wrapped(call.handler), call.handler.methodName, result)
       IN last' = [call.request EXCEPT
                        !.trace = call.request.trace \o rest.trace,
                        !.settled = [kind |-> "resolved", value |-> result],
                        !.logs = rest.logs,
                        !.outcome = rest.outcome,
                        !.res = PostResponse(call.handler, rest.outcome),
                        !.reply = ErrorReply(PostResponse(call.handler, rest.outcome))]
    /\ inflight' = inflight (-) SetToBag({call})
    /\ UNCHANGED <<app, registration, handlers, requestContexts, validatorErrors, running>>

\* the endpoint's promise rejects with error and the call rethrows it
EndpointRejects(call, error) ==
    /\ BagIn(call, inflight)
    /\ LET rest == WrappedRethrow(error)
       IN last' = [call.request EXCEPT
                        !.trace = call.request.trace \o rest.trace,
                        !.settled = [kind |-> "rejected", error |-> error],
                        !.logs = rest.logs,
                        !.outcome = rest.outcome,
                        !.res = PostResponse(call.handler, rest.outcome),
                        !.reply = ErrorReply(PostResponse(call.handler, rest.outcome))]
    /\ inflight' = inflight (-) SetToBag({call})
    /\ UNCHANGED <<app, registration, handlers, requestContexts, validatorErrors, running>>

Next ==
    \/ Register
    \/ CreateHandler
    \/ \E httpMethod \in HttpMethods, path \in Paths : RequestUnrouted(httpMethod, path)
    \/ \E path \in Paths : RequestGet(path)
    \/ \E path \in Paths, body \in app.bodies : RequestPostInvalid(path, body)
    \/ \E path \in Paths, body \in app.bodies, error \in Errors :
            RequestPostThrows(path, body, error)
    \/ \E path \in Paths, body \in app.bodies : RequestPostAwaits(path, body)
    \/ \E call \in BagToSet(inflight), result \in app.results : EndpointResolves(call, result)
    \/ \E call \in BagToSet(inflight), error \in Errors :
            EndpointRejects(call, error)

Spec == Init /\ [][Next]_vars

\* a middleware before the request handler passes an error on, which is
\* not an RpcError, and the error handler answers it
ForeignError(error) ==
    /\ handlers.created
    /\ last' = [NoRequest EXCEPT
                    !.kind = "error",
                    !.res = [kind |-> "next", error |-> error],
                    !.reply = ErrorReply([kind |-> "next", error |-> error])]
    /\ UNCHANGED <<app, registration, handlers, inflight, requestContexts, validatorErrors, running>>

\* the applications of the union tests and of the leniency of requests
SchemaInit ==
    /\ app \in SchemaApps
    /\ registration = [state |-> "start"]
    /\ handlers = [created |-> FALSE]
    /\ inflight = EmptyBag
    /\ last = NoRequest
    /\ requestContexts = {}
    /\ validatorErrors = EmptyMap
    /\ running = {}

SchemaSpec == SchemaInit /\ [][Next]_vars

\* the applications of the routing and error-handler tests
HandlerInit ==
    /\ app \in HandlerApps
    /\ registration = [state |-> "start"]
    /\ handlers = [created |-> FALSE]
    /\ inflight = EmptyBag
    /\ last = NoRequest
    /\ requestContexts = {}
    /\ validatorErrors = EmptyMap
    /\ running = {}

HandlerNext ==
    \/ Next
    \/ CreateHandlerThrows
    \/ \E error \in ForeignErrors : ForeignError(error)

HandlerSpec == HandlerInit /\ [][HandlerNext]_vars

\* the applications whose service takes a context
ContextInit ==
    /\ app \in ContextApps
    /\ registration = [state |-> "start"]
    /\ handlers = [created |-> FALSE]
    /\ inflight = EmptyBag
    /\ last = NoRequest
    /\ requestContexts = {}
    /\ validatorErrors = EmptyMap
    /\ running = {}

ContextNext ==
    \/ Next
    \/ \E body \in app.bodies, ctx \in app.contexts : Associate(body, ctx)
    \/ \E path \in Paths, body \in app.bodies : RequestPostNoContext(path, body)

ContextSpec == ContextInit /\ [][ContextNext]_vars

-----------------------------------------------------------------------------
(* Concurrent calls of the wrapped methods, with the validators as the     *)
(* objects they are: a run of a validator writes its errors property, null *)
(* (here <<>>) when the data is valid, and the wrapped method reads the    *)
(* property afterwards.  A call is a sequence of synchronous stretches,    *)
(* which end where the call ends or awaits its endpoint.                   *)

\* the most calls alive at once
MaxCalls == 2

\* the service whose methods are called directly, and what they are called
\* with and resolve with
ConcurrentApps ==
    { [service |-> {"echo", "say"},
       nodeEnv |-> "test",
       legacy |-> FALSE,
       serviceMeta |->
         [name |-> "service7",
          strictResponseValidation |-> strict,
          methods |-> <<E("echo", [requestTypeDef |-> UserDef,
                                   responseTypeDef |-> UserDef]),
                        E("say", [requestTypeDef |-> TString])>>],
       results |-> { Obj(3, <<E("name", Str("b"))>>),
                     Obj(3, <<E("username", Num(123))>>),
                     Obj(3, <<E("name", Num(1))>>) },
       bodies |-> { Obj(1, <<E("name", Str("b"))>>),
                    Obj(1, <<E("name", Num(1))>>),
                    Str("hi") }] : strict \in BOOLEAN }

\* implementation[methodName] of the registered service
Method(methodName) == Get(registration.serviceSet.implementation, methodName)

RequestKey(methodName) == methodName \o ".requestSchema"
ResponseKey(methodName) == methodName \o ".responseSchema"

\* validate(data): what it returns, and the errors properties after it
ValidatorRun(errors, key, schema, data) ==
    [valid |-> RunValidator(schema, data) = <<>>,
     errors |-> MapSet(errors, key, RunValidator(schema, data))]

\* Idle for a runtime that may switch calls anywhere
Idle_Preemptive == TRUE

\* no call is in the middle of a synchronous stretch: the wrapped method
\* has one await, that of its endpoint, and only there another call may run
Idle == running = {}

NoCall ==
    [kind |-> "none", methodName |-> "", args |-> Undefined,
     settled |-> [kind |-> "none"], logs |-> <<>>, outcome |-> NoOutcome]

ConcurrentInit ==
    /\ app \in ConcurrentApps
    /\ registration =
            [state |-> "registered",
             serviceSet |-> serviceWithSchema(app.service, app.serviceMeta,
                                              app.nodeEnv).value]
    /\ handlers = [created |-> FALSE]
    /\ inflight = EmptyBag
    /\ last = NoCall
    /\ requestContexts = {}
    /\ validatorErrors =
            [key \in {RequestKey(m) : m \in app.service}
                     \cup {ResponseKey(m) : m \in app.service} |-> <<>>]
    /\ running = {}

\* a call enters the wrapped method: requestSchema(args)
CallBegins(methodName, args) ==
    /\ Idle
    /\ Cardinality(running) + BagCardinality(inflight) < MaxCalls
    /\ LET run == ValidatorRun(validatorErrors, RequestKey(methodName),
                               Method(methodName).requestSchema, args)
       IN  /\ validatorErrors' = run.errors
           /\ running' = running \cup {[methodName |-> methodName, args |-> args,
                                        at |-> "request", valid |-> run.valid]}
    /\ UNCHANGED <<app, registration, handlers, inflight, last, requestContexts>>

\* requestSchema(args) was false: the call reads requestSchema.errors and
\* throws
CallThrowsValidation(call) ==
    /\ call \in running
    /\ call.at = "request"
    /\ ~call.valid
    /\ last' = [NoCall EXCEPT
                    !.kind = "call", !.methodName = call.methodName,
                    !.args = call.args,
                    !.outcome = Threw(RequestFailure(
                                    validatorErrors[RequestKey(call.methodName)],
                                    call.args))]
    /\ running' = running \ {call}
    /\ UNCHANGED <<app, registration, handlers, inflight, requestContexts, validatorErrors>>

\* requestSchema(args) was true: the call invokes its endpoint and awaits
CallAwaits(call) ==
    /\ call \in running
    /\ call.at = "request"
    /\ call.valid
    /\ inflight' = inflight (+) SetToBag({[methodName |-> call.methodName,
                                           args |-> call.args]})
    /\ running' = running \ {call}
    /\ UNCHANGED <<app, registration, handlers, last, requestContexts, validatorErrors>>

\* the endpoint's promise resolves and the call goes on: responseSchema(result)
CallResumes(call, result) ==
    /\ Idle
    /\ BagIn(call, inflight)
    /\ LET run == ValidatorRun(validatorErrors, ResponseKey(call.methodName),
                               Method(call.methodName).responseSchema, result)
       IN  /\ validatorErrors' = run.errors
           /\ running' = running \cup {[methodName |-> call.methodName,
                                        args |-> call.args, at |-> "response",
                                        result |-> result, valid |-> run.valid]}
    /\ inflight' = inflight (-) SetToBag({call})
    /\ UNCHANGED <<app, registration, handlers, last, requestContexts>>

\* the call ends: it returns the result, or reads responseSchema.errors and
\* throws or logs
CallEnds(call) ==
    /\ call \in running
    /\ call.at = "response"
    /\ LET wrapped == Method(call.methodName)
           errors == validatorErrors[ResponseKey(call.methodName)]
           logs == IF ~call.valid /\ ~wrapped.strictResponseValidation
                   THEN <<LogLine(wrapped.serviceName, call.methodName, errors)>>
                   ELSE <<>>
           outcome == IF ~call.valid /\ wrapped.strictResponseValidation
                      THEN Threw(ResponseFailure(errors, call.result))
                      ELSE Returned(call.result)
       IN last' = [NoCall EXCEPT
                        !.kind = "call", !.methodName = call.methodName,
                        !.args = call.args,
                        !.settled = [kind |-> "resolved", value |-> call.result],
                        !.logs = logs,
                        !.outcome = outcome]
    /\ running' = running \ {call}
    /\ UNCHANGED <<app, registration, handlers, inflight, requestContexts, validatorErrors>>

\* the endpoint's promise rejects and the await rethrows
CallRejects(call, error) ==
    /\ Idle
    /\ BagIn(call, inflight)
    /\ last' = [NoCall EXCEPT
                    !.kind = "call", !.methodName = call.methodName,
                    !.args = call.args,
                    !.settled = [kind |-> "rejected", error |-> error],
                    !.outcome = Threw(error)]
    /\ inflight' = inflight (-) SetToBag({call})
    /\ UNCHANGED <<app, registration, handlers, requestContexts, validatorErrors, running>>

ConcurrentNext ==
    \/ \E methodName \in app.service, args \in app.bodies : CallBegins(methodName, args)
    \/ \E call \in running : CallThrowsValidation(call)
    \/ \E call \in running : CallAwaits(call)
    \/ \E call \in BagToSet(inflight), result \in app.results : CallResumes(call, result)
    \/ \E call \in running : CallEnds(call)
    \/ \E call \in BagToSet(inflight), error \in Errors : CallRejects(call, error)

ConcurrentSpec == ConcurrentInit /\ [][ConcurrentNext]_vars

-----------------------------------------------------------------------------
(* Properties.  A completed POST is read off last; the calls still         *)
(* suspended are read off inflight.                                        *)

PostCompleted == last.kind = "request" /\ last.routed = "post"

\* the wrapped method the last request was routed to
LastWrapped == Get(registration.serviceSet.implementation, last.methodName)

\* the failures of the last request's body and of the result its endpoint
\* resolved with
LastRequestFailures == RunValidator(LastWrapped.requestSchema, last.body)
LastResponseFailures == RunValidator(LastWrapped.responseSchema, last.settled.value)

ValidationType == "https://errors.loke.global/@loke/http-rpc/validation"
ResponseValidationType == "https://errors.loke.global/@loke/http-rpc/response-validation"

\* C1: a call whose raw input fails the request validator fails with a
\* ValidationError and never invokes the implementation: a completed call
\* with failing input threw a ValidationError and invoked nothing, and no
\* call suspended in its implementation has a failing input.
C1_InvalidRequestNeverInvokes ==
    /\ (PostCompleted /\ LastRequestFailures # <<>>) =>
            /\ last.outcome.threw
            /\ last.outcome.error.class = "ValidationError"
            /\ last.invoked = <<>>
            /\ "endpoint" \notin {last.trace[i] : i \in 1..Len(last.trace)}
    /\ \A call \in BagToSet(inflight) :
            RunValidator(Wrapped(call.handler).requestSchema, call.request.body) = <<>>

C1_Witness ==
    /\ PostCompleted
    /\ LastRequestFailures # <<>>
    /\ last.outcome.threw
    /\ last.invoked = <<>>

\* C2: every request-validation failure reaches the caller as an error
\* whose own enumerable properties are exactly message, code, type,
\* instancePath and schemaPath, with code "validation", the validation type
\* URI, the message errorMessage formats, and the paths of the failure
\* reported; for service1/bar and {message: "a", user: {name: 1}} these
\* are the texts the repository's test expects.
C2_RequestErrorShape ==
    (PostCompleted /\ LastRequestFailures # <<>>) =>
        LET failure == LastRequestFailures[1]
            e == last.outcome.error
        IN  /\ last.outcome.threw
            /\ last.res.kind = "next"
            /\ last.res.error.inner = e
            /\ DOMAIN e.props = {"message", "code", "type", "instancePath", "schemaPath"}
            /\ e.props.code = "validation"
            /\ e.props.type = ValidationType
            /\ e.props.message = errorMessage(failure, last.body)
            /\ e.props.instancePath = failure.instancePath
            /\ e.props.schemaPath = failure.schemaPath
            /\ (/\ last.path = "/service1/bar"
                /\ last.body = Obj(1, <<E("message", Str("a")), E("user", User(Num(1)))>>))
               => /\ Flat(e.props.message) = "user.name must be string, received number (1)"
                  /\ Flat(e.props.instancePath) = "/user/name"
                  /\ Flat(e.props.schemaPath) = "/definitions/User/properties/name/type"

C2_Witness ==
    /\ PostCompleted
    /\ last.path = "/service1/bar"
    /\ last.outcome.threw
    /\ last.outcome.error.class = "ValidationError"
    /\ Flat(last.outcome.error.props.instancePath) = "/user/name"

\* C3: an error the implementation throws or rejects with reaches the
\* caller as that very error, with nothing added; the response validator
\* is not run and the logger is not called for that call.
C3_BusinessErrorUntouched ==
    (PostCompleted /\ last.settled.kind \in {"threw", "rejected"}) =>
        /\ last.outcome.threw
        /\ last.outcome.error = last.settled.error
        /\ last.res.kind = "next"
        /\ last.res.error.inner = last.settled.error
        /\ "responseSchema" \notin {last.trace[i] : i \in 1..Len(last.trace)}
        /\ last.logs = <<>>

C3_Witness ==
    /\ PostCompleted
    /\ last.settled.kind = "rejected"
    /\ last.settled.error.class = "Error"
    /\ last.outcome.threw
    /\ last.outcome.error.props = EmptyObject

\* C4: in strict mode a result that fails the response validator makes the
\* call fail with a ResponseValidationError: code "response-validation",
\* the response-validation type URI, and message, instancePath and
\* schemaPath built from the first failure as for a request; the result is
\* not returned.  For a User response and the result {username: 123} these
\* are the texts the repository's test expects.
C4_StrictResponseError ==
    (/\ PostCompleted
     /\ last.settled.kind = "resolved"
     /\ LastWrapped.strictResponseValidation
     /\ LastResponseFailures # <<>>) =>
        LET failure == LastResponseFailures[1]
            e == last.outcome.error
        IN  /\ last.outcome.threw
            /\ last.res.kind = "next"
            /\ e.class = "ResponseValidationError"
            /\ DOMAIN e.props = {"message", "code", "type", "instancePath", "schemaPath"}
            /\ e.props.code = "response-validation"
            /\ e.props.type = ResponseValidationType
            /\ e.props.message = errorMessage(failure, last.settled.value)
            /\ e.props.instancePath = failure.instancePath
            /\ e.props.schemaPath = failure.schemaPath
            /\ (/\ last.path = "/service1/bar"
                /\ last.settled.value = Obj(3, <<E("username", Num(123))>>))
               => /\ Flat(e.props.message) = "must have property 'name'"
                  /\ Flat(e.props.instancePath) = ""
                  /\ Flat(e.props.schemaPath) = "/definitions/User/properties/name"

C4_Witness ==
    /\ PostCompleted
    /\ last.path = "/service1/bar"
    /\ last.settled.kind = "resolved"
    /\ last.settled.value = Obj(3, <<E("username", Num(123))>>)
    /\ last.outcome.threw
    /\ last.outcome.error.class = "ResponseValidationError"

\* the text names "<service>.<method>"
NamesMethod(text, serviceName, methodName) ==
    \E i \in 1..Len(text) - 2 :
        /\ text[i] = serviceName
        /\ text[i + 1] = "."
        /\ text[i + 2] = methodName

\* C5: in lenient mode a result that fails the response validator does not
\* fail the call: the call returns that very result, and logger.error is
\* called exactly once for it, with a text that holds
\* "<service>.<method>".
C5_LenientLogsAndReturns ==
    (/\ PostCompleted
     /\ last.settled.kind = "resolved"
     /\ ~LastWrapped.strictResponseValidation
     /\ LastResponseFailures # <<>>) =>
        /\ ~last.outcome.threw
        /\ last.outcome.value = last.settled.value
        /\ last.res = [kind |-> "json", body |-> last.settled.value]
        /\ Len(last.logs) = 1
        /\ NamesMethod(last.logs[1], app.serviceMeta.name, last.methodName)

C5_Witness ==
    /\ PostCompleted
    /\ last.settled.kind = "resolved"
    /\ LastResponseFailures # <<>>
    /\ ~last.outcome.threw
    /\ Len(last.logs) = 1

\* a completed call whose result failed the response validator
DriftObserved ==
    /\ PostCompleted
    /\ last.settled.kind = "resolved"
    /\ LastResponseFailures # <<>>

StrictSupplied == "strictResponseValidation" \in DOMAIN app.serviceMeta

\* C6 as stated: without a supplied strictResponseValidation, strict mode
\* is on exactly when NODE_ENV is "production"; a supplied value is used
\* whatever the environment.  Strict mode is read off what a call does with
\* a result that fails the response validator.
C6_Original ==
    DriftObserved =>
        (last.outcome.threw <=>
            IF StrictSupplied THEN app.serviceMeta.strictResponseValidation
            ELSE app.nodeEnv = "production")

\* C6 amended: without a supplied strictResponseValidation, strict mode is
\* on exactly when NODE_ENV is not "production"; a supplied value is used
\* whatever the environment.
C6_StrictDefault ==
    DriftObserved =>
        (last.outcome.threw <=>
            IF StrictSupplied THEN app.serviceMeta.strictResponseValidation
            ELSE app.nodeEnv # "production")

C6_Witness ==
    /\ DriftObserved
    /\ ~StrictSupplied
    /\ app.nodeEnv = "production"
    /\ ~last.outcome.threw

\* C7: when the input passes request validation and the result passes
\* response validation, the call resolves with the very value the
\* implementation produced and the implementation was handed the very
\* input received, in strict and in lenient mode; a suspended call too has
\* handed its implementation the very input received.
C7_SuccessUnchanged ==
    /\ (/\ PostCompleted
        /\ last.settled.kind = "resolved"
        /\ LastResponseFailures = <<>>) =>
            /\ last.outcome = Returned(last.settled.value)
            /\ last.res = [kind |-> "json", body |-> last.settled.value]
            /\ last.invoked = <<last.body>>
            /\ last.logs = <<>>
    /\ \A call \in BagToSet(inflight) : call.request.invoked = <<call.request.body>>

C7_Witness ==
    /\ PostCompleted
    /\ last.settled.kind = "resolved"
    /\ LastResponseFailures = <<>>
    /\ last.body.t = "object"
    /\ Len(last.body.props) = 3
    /\ last.settled.value.t = "object"
    /\ ~last.outcome.threw

\* the functions of the service object that serviceMeta does not declare
Undeclared == app.service \ Keys(app.serviceMeta.methods)

\* the paths a request may name an undeclared function by
UndeclaredPaths ==
    {"/" \o app.serviceMeta.name \o "/" \o m : m \in Undeclared}
    \cup {"/" \o m : m \in Undeclared}

\* C8: a function of the service object that is not a declared method is
\* never reachable: the implementation map of the ServiceSet has no entry
\* for it, a POST to its path is passed on with next() and invokes
\* nothing, and no call suspended in an implementation is a call of it.
C8_UndeclaredUnreachable ==
    /\ registration.state = "registered" =>
            \A m \in Undeclared : ~HasKey(registration.serviceSet.implementation, m)
    /\ (last.kind = "request" /\ last.httpMethod = "POST" /\ last.path \in UndeclaredPaths) =>
            /\ last.routed = "none"
            /\ last.invoked = <<>>
            /\ last.res = [kind |-> "next"]
    /\ \A call \in BagToSet(inflight) : call.handler.methodName \notin Undeclared

C8_Witness ==
    /\ last.kind = "request"
    /\ last.httpMethod = "POST"
    /\ last.path = "/service1/unlisted"
    /\ "unlisted" \in app.service
    /\ last.res = [kind |-> "next"]
    /\ last.invoked = <<>>

\* the declared methods one of whose schemas ajv.compile rejects
Offenders ==
    {i \in 1..Len(app.serviceMeta.methods) :
        \/ ~CompileOk(RequestSchema(app.serviceMeta, app.serviceMeta.methods[i].v))
        \/ ~CompileOk(ResponseSchema(app.serviceMeta, app.serviceMeta.methods[i].v))}

FirstOffender == CHOOSE i \in Offenders : \A j \in Offenders : i <= j

\* C9: when the request or response TypeDef of a declared method does not
\* compile, serviceWithSchema throws an error whose message names that
\* method and the schema at fault, and no ServiceSet exists, not even one
\* of the methods declared before it; no request handler is built.
C9_CompileFailureAborts ==
    (Offenders # {} /\ registration.state # "start") =>
        LET methodName == app.serviceMeta.methods[FirstOffender].k
            methodMeta == app.serviceMeta.methods[FirstOffender].v
        IN  /\ registration.state = "failed"
            /\ "serviceSet" \notin DOMAIN registration
            /\ ~handlers.created
            /\ (\A j \in 1..FirstOffender : app.serviceMeta.methods[j].k \in app.service)
               => /\ registration.error.class = "Error"
                  /\ registration.error.message[1] = "failed to compile \""
                  /\ registration.error.message[2] = methodName
                  /\ registration.error.message[3] =
                        IF ~CompileOk(RequestSchema(app.serviceMeta, methodMeta))
                        THEN "\" request schema: "
                        ELSE "\" response schema: "

C9_Witness ==
    /\ registration.state = "failed"
    /\ Offenders # {}
    /\ FirstOffender > 1
    /\ registration.error.message[2] = "lost"

\* the property names a TypeDef declares at its root
DeclaredKeys(typeDef) ==
    Keys(Entries(typeDef, "properties")) \cup Keys(Entries(typeDef, "optionalProperties"))

\* v without the root properties the TypeDef does not declare
StripExtras(typeDef, v) ==
    IF v.t = "object"
    THEN [v EXCEPT !.props = SelectSeq(v.props, LAMBDA e : e.k \in DeclaredKeys(typeDef))]
    ELSE v

\* v satisfies the TypeDef as written, its undeclared root properties aside
SatisfiesButForExtras(typeDef, v) ==
    RunValidator(Spread([definitions |-> Definitions(app.serviceMeta)], typeDef),
                 StripExtras(typeDef, v)) = <<>>

\* the request TypeDef of the method the last request was routed to
LastRequestTypeDef ==
    OrEmpty(Get(app.serviceMeta.methods, last.methodName), "requestTypeDef")

\* C10 as stated: for a request TypeDef that declares at least one
\* property, an input that satisfies it is accepted whatever extra unlisted
\* properties it carries, and the implementation is invoked.
C10_Original ==
    (/\ PostCompleted
     /\ DeclaredKeys(LastRequestTypeDef) # {}
     /\ SatisfiesButForExtras(LastRequestTypeDef, last.body)) =>
        /\ LastRequestFailures = <<>>
        /\ last.invoked = <<last.body>>

\* C10 amended: for a request TypeDef that has a properties key and does
\* not itself set additionalProperties to false, an input that satisfies
\* it is accepted whatever extra unlisted properties it carries at its
\* root, and the implementation is invoked.
C10_LiberalRequest ==
    (/\ PostCompleted
     /\ "properties" \in DOMAIN LastRequestTypeDef
     /\ ("additionalProperties" \in DOMAIN LastRequestTypeDef
            => LastRequestTypeDef.additionalProperties)
     /\ SatisfiesButForExtras(LastRequestTypeDef, last.body)) =>
        /\ LastRequestFailures = <<>>
        /\ last.invoked = <<last.body>>

C10_Witness ==
    /\ PostCompleted
    /\ "properties" \in DOMAIN LastRequestTypeDef
    /\ last.body.t = "object"
    /\ HasKey(last.body.props, "extra")
    /\ SatisfiesButForExtras(LastRequestTypeDef, last.body)
    /\ last.invoked = <<last.body>>

\* the response TypeDef of the method the last request was routed to
LastResponseTypeDef ==
    OrEmpty(Get(app.serviceMeta.methods, last.methodName), "responseTypeDef")

\* a TypeDef that is a ref, replaced by the definition it names
Resolved(typeDef) ==
    IF "ref" \in DOMAIN typeDef
    THEN Get(Definitions(app.serviceMeta), typeDef.ref)
    ELSE typeDef

\* v carries a root property the TypeDef does not list
HasExtra(typeDef, v) ==
    /\ v.t = "object"
    /\ \E i \in 1..Len(v.props) : v.props[i].k \notin DeclaredKeys(typeDef)

\* v lacks a root property the TypeDef requires
MissesRequired(typeDef, v) ==
    /\ v.t = "object"
    /\ \E k \in Keys(Entries(typeDef, "properties")) : ~HasKey(v.props, k)

\* v has a required root property whose value is not of the type listed
Mismatches(typeDef, v) ==
    /\ v.t = "object"
    /\ \E i \in 1..Len(Entries(typeDef, "properties")) :
          LET p == typeDef.properties[i]
          IN  /\ HasKey(v.props, p.k)
              /\ "type" \in DOMAIN p.v
              /\ Get(v.props, p.k).t #
                    (CASE p.v.type = "string" -> "string"
                       [] p.v.type = "boolean" -> "boolean"
                       [] OTHER -> "number")

\* the last call failed its response validation the way its mode says:
\* thrown as a ResponseValidationError, or logged once and returned
ResponseRejected ==
    IF LastWrapped.strictResponseValidation
    THEN /\ last.outcome.threw
         /\ last.outcome.error.class = "ResponseValidationError"
         /\ last.outcome.error.props.code = "response-validation"
         /\ last.logs = <<>>
    ELSE /\ last.outcome = Returned(last.settled.value)
         /\ Len(last.logs) = 1

\* C11: a response TypeDef gets no implicit leniency: for a response
\* TypeDef with properties that does not itself set additionalProperties,
\* a result with an extra unlisted property, without a required property,
\* or with a property of the wrong type fails the response validator and
\* is rejected; a result whose only fault is the extra property would pass
\* the request validator compiled from the same TypeDef.
C11_ResponseNotLenient ==
    (/\ PostCompleted
     /\ last.settled.kind = "resolved"
     /\ "properties" \in DOMAIN Resolved(LastResponseTypeDef)
     /\ "additionalProperties" \notin DOMAIN Resolved(LastResponseTypeDef)
     /\ \/ HasExtra(Resolved(LastResponseTypeDef), last.settled.value)
        \/ MissesRequired(Resolved(LastResponseTypeDef), last.settled.value)
        \/ Mismatches(Resolved(LastResponseTypeDef), last.settled.value)) =>
        /\ ResponseRejected
        /\ (/\ "properties" \in DOMAIN LastResponseTypeDef
            /\ ~MissesRequired(LastResponseTypeDef, last.settled.value)
            /\ ~Mismatches(LastResponseTypeDef, last.settled.value))
           => RunValidator(RequestSchema(app.serviceMeta,
                                         [requestTypeDef |-> LastResponseTypeDef]),
                           last.settled.value) = <<>>

C11_Witness ==
    /\ PostCompleted
    /\ last.path = "/service7/echo"
    /\ last.settled.kind = "resolved"
    /\ last.settled.value = Obj(3, <<E("name", Str("b")), E("extra", Num(1))>>)
    /\ RunValidator(LastWrapped.requestSchema, last.settled.value) = <<>>
    /\ last.outcome.threw
    /\ last.outcome.error.class = "ResponseValidationError"

\* C12: a response TypeDef that is voidSchema accepts the result undefined
\* and rejects every other result, 1, null and {} among them; in strict
\* mode the rejected result makes the call fail with the
\* response-validation error of the "void" keyword.
C12_VoidResponse ==
    (/\ PostCompleted
     /\ last.settled.kind = "resolved"
     /\ LastResponseTypeDef = voidSchema) =>
        IF last.settled.value = Undefined
        THEN /\ last.outcome = Returned(Undefined)
             /\ last.logs = <<>>
        ELSE /\ ResponseRejected
             /\ LastWrapped.strictResponseValidation =>
                   /\ Flat(last.outcome.error.props.message)
                         = "must pass \"void\" keyword validation"
                   /\ Flat(last.outcome.error.props.instancePath) = ""
                   /\ Flat(last.outcome.error.props.schemaPath) = "/metadata/void"
                   /\ last.outcome.error.props.type = ResponseValidationType

C12_Witness ==
    /\ PostCompleted
    /\ last.path = "/service8/nothing"
    /\ last.settled.kind = "resolved"
    /\ last.settled.value = Null
    /\ last.outcome.threw
    /\ last.outcome.error.class = "ResponseValidationError"

\* the declared methods whose request TypeDef is left out or is {}
EmptyRequestMethods ==
    {m \in Keys(app.serviceMeta.methods) :
        OrEmpty(Get(app.serviceMeta.methods, m), "requestTypeDef") = EmptyObject}

\* C13 as stated: a request TypeDef that declares no properties accepts
\* any input, and the implementation is invoked with it.
C13_Original ==
    (PostCompleted /\ DeclaredKeys(LastRequestTypeDef) = {}) =>
        /\ last.invoked = <<last.body>>
        /\ ~(last.outcome.threw /\ last.outcome.error.class = "ValidationError")

\* C13 amended: a request TypeDef that is left out or is the empty TypeDef
\* {} accepts any input, undefined included: every input the clients send
\* passes the wrapped method's request validation, and a completed call of
\* such a method has invoked the implementation with its input and has
\* not failed with a ValidationError.
C13_EmptyRequestAcceptsAll ==
    /\ registration.state = "registered" =>
            \A m \in EmptyRequestMethods : \A body \in app.bodies :
                WrappedStart(Get(registration.serviceSet.implementation, m), body).invoked
                    = <<body>>
    /\ (PostCompleted /\ last.methodName \in EmptyRequestMethods) =>
            /\ last.invoked = <<last.body>>
            /\ ~(last.outcome.threw /\ last.outcome.error.class = "ValidationError")

C13_Witness ==
    /\ PostCompleted
    /\ last.path = "/service8/anything"
    /\ last.body = Undefined
    /\ last.invoked = <<Undefined>>
    /\ last.settled.kind = "resolved"

\* the methods declared with neither requestTypeDef nor responseTypeDef
NoSchemaMethods ==
    {m \in Keys(app.serviceMeta.methods) :
        DOMAIN Get(app.serviceMeta.methods, m)
            \cap {"requestTypeDef", "responseTypeDef"} = {}}

\* C14: a method declared with neither requestTypeDef nor responseTypeDef
\* works: every input reaches the implementation as it is, and every
\* result, undefined included, is returned as it is with no log line; a
\* completed call of such a method fails only with the error its
\* implementation threw, never a validation or response-validation error.
C14_NoSchemaPassesThrough ==
    /\ registration.state = "registered" =>
            \A m \in NoSchemaMethods :
                LET wrapped == Get(registration.serviceSet.implementation, m)
                IN  /\ \A body \in app.bodies :
                            WrappedStart(wrapped, body).invoked = <<body>>
                    /\ \A result \in app.results :
                            /\ WrappedResume(wrapped, m, result).outcome = Returned(result)
                            /\ WrappedResume(wrapped, m, result).logs = <<>>
    /\ (PostCompleted /\ last.methodName \in NoSchemaMethods) =>
            /\ last.invoked = <<last.body>>
            /\ last.logs = <<>>
            /\ last.settled.kind = "resolved" =>
                    /\ last.outcome = Returned(last.settled.value)
                    /\ last.res = [kind |-> "json", body |-> last.settled.value]
            /\ last.outcome.threw =>
                    /\ last.settled.kind \in {"threw", "rejected"}
                    /\ last.outcome.error = last.settled.error

C14_Witness ==
    /\ PostCompleted
    /\ last.path = "/service1/noSchema"
    /\ last.body = Undefined
    /\ last.invoked = <<Undefined>>
    /\ last.settled.kind = "resolved"
    /\ last.outcome = Returned(Undefined)

\* the last call failed a validation: the failure its error was built from
\* and the value that was validated
ValidationFailed ==
    /\ PostCompleted
    /\ last.outcome.threw
    /\ last.outcome.error.class \in {"ValidationError", "ResponseValidationError"}

FailureReported ==
    IF last.outcome.error.class = "ValidationError"
    THEN LastRequestFailures[1]
    ELSE LastResponseFailures[1]

Validated ==
    IF last.outcome.error.class = "ValidationError"
    THEN last.body
    ELSE last.settled.value

\* the value of data at a JSON pointer kept as chunks: data itself at the
\* root, undefined where the walk leaves the objects
RECURSIVE ValueAt(_, _)
ValueAt(data, pointer) ==
    IF pointer = <<>> THEN data
    ELSE ValueAt(IF data.t = "object" /\ HasKey(data.props, pointer[2])
                 THEN Get(data.props, pointer[2])
                 ELSE Undefined,
                 SubSeq(pointer, 3, Len(pointer)))

\* /a/b as a.b, followed by a space; nothing for the root
DottedPrefix(pointer) ==
    IF pointer = <<>> THEN ""
    ELSE Join([i \in 1..(Len(pointer) \div 2) |-> pointer[2 * i]], ".") \o " "

RuntimeType(v) == IF v.t = "null" THEN "null" ELSE v.t

Rendered(v) == IF v.t = "undefined" THEN "undefined" ELSE JSONStringify(v)

\* C15: the message of a type-mismatch failure is "<dotted path> must be
\* <expected type>, received <actual runtime type> (<JSON of the actual
\* value>)", the actual value being the one at the instance path of the
\* value validated, its runtime type "null" for null and its typeof
\* otherwise, and an undefined value rendered as undefined; for the
\* TypeDef {properties: {name: {type: "string"}}} and {name: 1} the message
\* is "name must be string, received number (1)" at "/name".
C15_TypeMismatchMessage ==
    (ValidationFailed /\ FailureReported.keyword = "type") =>
        LET e == last.outcome.error
            actual == ValueAt(Validated, FailureReported.instancePath)
        IN  /\ Flat(e.props.message) =
                    DottedPrefix(FailureReported.instancePath)
                    \o "must be " \o FailureReported.params.type
                    \o ", received " \o RuntimeType(actual)
                    \o " (" \o Rendered(actual) \o ")"
            /\ (/\ last.path = "/service7/echo"
                /\ last.body = Obj(1, <<E("name", Num(1))>>))
               => /\ Flat(e.props.message) = "name must be string, received number (1)"
                  /\ Flat(e.props.instancePath) = "/name"

\* C16: the message of an enum failure is "<dotted path> must be one of
\* [<json>, <json>, ...], received <JSON of the actual value>"; the request
\* TypeDef {enum: ["A", "B"]} with the root input "C" gives
\* 'must be one of ["A", "B"], received "C"'.
C16_EnumMessage ==
    (ValidationFailed /\ FailureReported.keyword = "enum") =>
        LET e == last.outcome.error
            actual == ValueAt(Validated, FailureReported.instancePath)
            allowed == FailureReported.params.allowedValues
        IN  /\ Flat(e.props.message) =
                    DottedPrefix(FailureReported.instancePath)
                    \o "must be one of ["
                    \o Join([i \in 1..Len(allowed) |-> JSONStringify(Str(allowed[i]))], ", ")
                    \o "], received " \o Rendered(actual)
            /\ (last.path = "/service3/pick" /\ last.body = Str("C"))
               => Flat(e.props.message) = "must be one of [\"A\", \"B\"], received \"C\""

\* the failures of v against one required property of a TypeDef, the other
\* properties aside
FailuresOfProperty(typeDef, i, v) ==
    RunValidator([definitions |-> Definitions(app.serviceMeta),
                  properties |-> <<typeDef.properties[i]>>,
                  additionalProperties |-> TRUE], v)

\* the required properties of the TypeDef that v violates
ViolatedProperties(typeDef, v) ==
    {i \in 1..Len(Entries(typeDef, "properties")) :
        FailuresOfProperty(typeDef, i, v) # <<>>}

\* C17: an input that violates two or more properties of the request
\* TypeDef fails with an error that carries the message, instancePath and
\* schemaPath of one failure only: the first of the validator's failure
\* list, which is that of the first violated property in the order the
\* TypeDef lists them; no other violated property is named in it.
C17_FirstFailureWins ==
    (/\ PostCompleted
     /\ last.body.t = "object"
     /\ Cardinality(ViolatedProperties(LastRequestTypeDef, last.body)) >= 2) =>
        LET violated == ViolatedProperties(LastRequestTypeDef, last.body)
            first == CHOOSE i \in violated : \A j \in violated : i <= j
            alone == FailuresOfProperty(LastRequestTypeDef, first, last.body)[1]
            e == last.outcome.error
            named == {e.props.message[n] : n \in 1..Len(e.props.message)}
                     \cup {e.props.instancePath[n] : n \in 1..Len(e.props.instancePath)}
        IN  /\ last.outcome.threw
            /\ e.class = "ValidationError"
            /\ DOMAIN e.props = {"message", "code", "type", "instancePath", "schemaPath"}
            /\ LastRequestFailures[1] = alone
            /\ e.props.instancePath = alone.instancePath
            /\ e.props.schemaPath = alone.schemaPath
            /\ e.props.message = errorMessage(alone, last.body)
            /\ \A j \in violated \ {first} :
                    LastRequestTypeDef.properties[j].k \notin named

C17_Witness ==
    /\ PostCompleted
    /\ last.path = "/service1/bar"
    /\ last.body = Obj(1, <<E("message", Num(1)), E("user", User(Num(1)))>>)
    /\ last.outcome.threw
    /\ Flat(last.outcome.error.props.message) = "message must be string, received number (1)"
    /\ Flat(last.outcome.error.props.instancePath) = "/message"

DescriptorKeys == {"methodTimeout", "help", "requestTypeDef", "responseTypeDef"}

\* C20: after a successful registration meta.expose holds one descriptor
\* per declared method, in the order of declaration, with that method's
\* name and its methodTimeout, help, requestTypeDef and responseTypeDef as
\* declared (and none it did not declare), and the implementation map
\* holds a wrapped method for exactly the declared method names.
C20_ManifestMatchesDeclaration ==
    registration.state = "registered" =>
        LET methods == app.serviceMeta.methods
            expose == registration.serviceSet.meta.expose
            implementation == registration.serviceSet.implementation
        IN  /\ Len(expose) = Len(methods)
            /\ \A i \in 1..Len(methods) :
                    /\ expose[i].methodName = methods[i].k
                    /\ DOMAIN expose[i] \ {"methodName"}
                            = DOMAIN methods[i].v \cap DescriptorKeys
                    /\ \A key \in DOMAIN methods[i].v \cap DescriptorKeys :
                            expose[i][key] = methods[i].v[key]
            /\ Len(implementation) = Len(methods)
            /\ Keys(implementation) = Keys(methods)
            /\ registration.serviceSet.meta.service = app.serviceMeta.name

C20_Witness ==
    /\ registration.state = "registered"
    /\ app.serviceMeta.name = "service3"
    /\ Len(registration.serviceSet.meta.expose) = 2
    /\ registration.serviceSet.meta.expose[1].methodName = "pick"
    /\ registration.serviceSet.meta.expose[1].methodTimeout = 5
    /\ registration.serviceSet.meta.expose[2].methodName = "exact"
    /\ Keys(registration.serviceSet.implementation) = {"pick", "exact"}

\* C18 as stated: a call of a method wrapped by contextServiceWithSchema
\* whose raw argument has no associated context fails with the
\* missing-context error before the request TypeDef is evaluated, also
\* when the argument fails the request TypeDef.
C18_Original ==
    (ContextService /\ PostCompleted /\ last.associated = {}) =>
        /\ last.outcome = Threw(MissingContext)
        /\ "requestSchema" \notin {last.trace[i] : i \in 1..Len(last.trace)}

\* C18 amended: the request TypeDef is evaluated first.  A call whose raw
\* argument has no associated context and passes the request TypeDef
\* fails with the missing-context error, after request validation and
\* before the service's method is called; one whose argument also fails
\* the request TypeDef fails with the validation error, and the adapter is
\* not invoked.  No call suspended in the service's method lacks a context.
C18_MissingContextAfterValidation ==
    /\ (ContextService /\ PostCompleted /\ last.associated = {}) =>
            IF LastRequestFailures = <<>>
            THEN /\ last.outcome = Threw(MissingContext)
                 /\ last.res.kind = "next"
                 /\ last.res.error.inner = MissingContext
                 /\ last.trace = <<"requestSchema", "endpoint">>
                 /\ last.invoked = <<last.body>>
                 /\ last.delivered = <<>>
                 /\ last.logs = <<>>
            ELSE /\ last.outcome.threw
                 /\ last.outcome.error.class = "ValidationError"
                 /\ last.trace = <<"requestSchema">>
                 /\ last.invoked = <<>>
                 /\ last.delivered = <<>>
    /\ ContextService =>
            \A call \in BagToSet(inflight) : call.request.associated # {}

C18_Witness ==
    /\ ContextService
    /\ PostCompleted
    /\ last.associated = {}
    /\ LastRequestFailures = <<>>
    /\ last.outcome = Threw(MissingContext)
    /\ requestContexts # {}

\* C19: a call of a method wrapped by contextServiceWithSchema, a method
\* the service object has, whose raw argument passes the request TypeDef
\* and has an associated context calls the service's method with that
\* very context and that very argument;
\* the context is found by the identity of the argument, so an argument
\* with the content of an associated object that is not that object finds
\* none and the service's method is not called.
C19_ContextDelivered ==
    ContextService =>
        /\ \A call \in BagToSet(inflight) :
                \E ctx \in app.contexts :
                    /\ call.request.associated = {ctx}
                    /\ call.request.delivered = <<ctx, call.request.body>>
        /\ (/\ PostCompleted
            /\ last.methodName \in app.service
            /\ LastRequestFailures = <<>>) =>
                IF last.associated = {}
                THEN /\ last.delivered = <<>>
                     /\ last.outcome = Threw(MissingContext)
                ELSE \E ctx \in app.contexts :
                        /\ last.associated = {ctx}
                        /\ last.delivered = <<ctx, last.body>>

\* the call of one object delivered its context while another object of
\* the same content is associated with another context
C19_Witness ==
    /\ ContextService
    /\ PostCompleted
    /\ last.settled.kind = "resolved"
    /\ last.delivered = <<Ctx(2), last.body>>
    /\ last.body.id = 4
    /\ \E e \in requestContexts :
            e.key.id = 1 /\ e.key.props = last.body.props /\ e.value = Ctx(1)


-----------------------------------------------------------------------------
(* Messages of the other failure kinds. *)

-----------------------------------------------------------------------------
(* Routing of createRequestHandler. *)

\* the names of the methods the registered service exposes
Exposed ==
    {registration.serviceSet.meta.expose[i].methodName :
        i \in 1..Len(registration.serviceSet.meta.expose)}

\* the paths a POST invokes a method under
NestedPath(m) == "/" \o app.serviceMeta.name \o "/" \o m
LegacyPath(m) == "/" \o m
InvokingPaths ==
    {NestedPath(m) : m \in Exposed}
    \cup (IF app.legacy THEN {LegacyPath(m) : m \in Exposed} ELSE {})

\* the paths a GET answers with metadata
MetaPaths == {"/", "/" \o app.serviceMeta.name} \cup InvokingPaths

\* C22: the handler of createRequestHandler invokes a method's
\* implementation only for a POST to /<service>/<method> (or, in legacy
\* mode, /<method>) of an exposed method; it passes the request body and
\* replies with the result as JSON; a request for an unknown service, an
\* unexposed method or an HTTP method other than GET and POST is passed on
\* by next() with nothing invoked, and a GET never invokes anything.
C22_OnlyExposedPostInvokes ==
    /\ last.kind = "request" =>
        /\ (last.routed = "post") <=>
                (last.httpMethod = "POST" /\ last.path \in InvokingPaths)
        /\ last.routed = "post" =>
                /\ last.methodName \in Exposed
                /\ last.path \in {NestedPath(last.methodName), LegacyPath(last.methodName)}
                /\ last.invoked \in {<<>>, <<last.body>>}
                /\ (last.invoked = <<>>) <=> (LastRequestFailures # <<>>)
                /\ ~last.outcome.threw =>
                        /\ last.settled.kind = "resolved"
                        /\ last.res = [kind |-> "json", body |-> last.settled.value]
        /\ last.routed # "post" =>
                /\ last.invoked = <<>>
                /\ last.trace = <<>>
                /\ last.settled.kind = "none"
        /\ (\/ last.httpMethod \notin {"GET", "POST"}
            \/ last.path \notin MetaPaths) => last.res = [kind |-> "next"]
        /\ last.httpMethod = "GET" => last.routed # "post"
    /\ \A call \in BagToSet(inflight) :
            /\ call.request.httpMethod = "POST"
            /\ call.request.path \in InvokingPaths
            /\ call.request.path \in {NestedPath(call.handler.methodName),
                                      LegacyPath(call.handler.methodName)}
            /\ call.handler.methodName \in Exposed
            /\ call.request.invoked = <<call.request.body>>

C22_Witness ==
    /\ app.legacy
    /\ last.kind = "request"
    /\ last.httpMethod = "POST"
    /\ last.path = "/opt"
    /\ last.invoked = <<last.body>>
    /\ last.res = [kind |-> "json", body |-> Str("ok")]

-----------------------------------------------------------------------------
(* Legacy mode of createRequestHandler. *)

OnlyOneService == "Only 1 service is supported in legacy mode"

\* the names of the methods a service set exposes
ExposedBy(serviceSet) ==
    {serviceSet.meta.expose[i].methodName : i \in 1..Len(serviceSet.meta.expose)}

\* what a completed POST must have come to, had handler h taken it
OutcomeUnder(h) ==
    LET start == WrappedStart(Wrapped(h), last.body)
    IN  IF start.invoked = <<>> THEN start.outcome
        ELSE IF last.settled.kind = "resolved"
        THEN WrappedResume(Wrapped(h), h.methodName, last.settled.value).outcome
        ELSE WrappedRethrow(last.settled.error).outcome

\* C23: createRequestHandler with legacy: true throws unless exactly one
\* service is supplied; with one service it serves every exposed method,
\* POST invocation and GET metadata, under /<methodName> and under
\* /<service-name>/<methodName>, and a request behaves under the one path
\* as under the other.
C23_LegacyServesBothPaths ==
    /\ (handlers.created /\ app.legacy) => Len(Mounted) = 1
    /\ "error" \in DOMAIN handlers =>
            /\ app.legacy
            /\ Len(Mounted) # 1
            /\ ~handlers.created
            /\ handlers.error.class = "Error"
            /\ Flat(handlers.error.message) = OnlyOneService
    /\ (handlers.created /\ app.legacy) =>
        \A m \in ExposedBy(Mounted[1]) :
            LET nested == "/" \o Mounted[1].meta.service \o "/" \o m
                root == "/" \o m
            IN  /\ {nested, root} \subseteq DOMAIN handlers.postHandlers
                /\ {nested, root} \subseteq DOMAIN handlers.getHandlers
                /\ handlers.postHandlers[root] = handlers.postHandlers[nested]
                /\ handlers.getHandlers[root] = handlers.getHandlers[nested]
                /\ handlers.postHandlers[nested].methodName = m
                /\ handlers.getHandlers[nested] =
                        [kind |-> "method", serviceName |-> Mounted[1].meta.service,
                         methodName |-> m]
                /\ (last.kind = "request" /\ last.path \in {nested, root}) =>
                        /\ last.httpMethod = "GET" =>
                                last.res = [kind |-> "json",
                                            meta |-> handlers.getHandlers[nested]]
                        /\ last.httpMethod = "POST" =>
                                LET h == handlers.postHandlers[nested]
                                IN  /\ last.routed = "post"
                                    /\ last.methodName = m
                                    /\ last.outcome = OutcomeUnder(h)
                                    /\ last.res = PostResponse(h, OutcomeUnder(h))

C23_Witness ==
    /\ handlers.created
    /\ app.legacy
    /\ Len(Mounted) = 1
    /\ last.kind = "request"
    /\ last.httpMethod = "POST"
    /\ last.path = "/greet"
    /\ last.res = [kind |-> "json", body |-> Str("success world")]

-----------------------------------------------------------------------------
(* The error handler. *)

\* the request handler, or a middleware before it, passed an error on
ErrorPassed == last.res.kind = "next" /\ "error" \in DOMAIN last.res

\* C24: createErrorHandler answers an error that is not an RpcError with
\* status 500 and the body {message}; an RpcError whose inner error has no
\* type with status 400 and a body of nothing but the inner error's message
\* and code; an RpcError whose inner error has a type, the validation
\* errors of this layer among them, with status 400 and the inner error
\* serialised in full.
C24_ErrorHandlerMapping ==
    ErrorPassed =>
        LET err == last.res.error
            reply == last.reply
        IN  /\ reply.kind = "error"
            /\ err.class # "RpcError" =>
                    /\ reply.status = 500
                    /\ reply.body = [message |-> err.message]
            /\ (err.class = "RpcError" /\ "type" \notin DOMAIN err.inner.props) =>
                    /\ reply.status = 400
                    /\ DOMAIN reply.body \subseteq {"message", "code"}
                    /\ reply.body =
                            IF "code" \in DOMAIN err.inner.props
                            THEN [message |-> err.inner.message,
                                  code |-> err.inner.props.code]
                            ELSE [message |-> err.inner.message]
            /\ (err.class = "RpcError" /\ "type" \in DOMAIN err.inner.props) =>
                    /\ reply.status = 400
                    /\ reply.body = err.inner.props
                    /\ err.inner.class = "ValidationError" =>
                            /\ DOMAIN reply.body =
                                    {"message", "code", "type", "instancePath", "schemaPath"}
                            /\ reply.body.code = "validation"
                            /\ reply.body.type = ValidationType
                            /\ reply.body.message = err.inner.message

C24_Witness ==
    /\ ErrorPassed
    /\ last.path = "/service9/greet"
    /\ last.res.error.class = "RpcError"
    /\ last.reply = [kind |-> "error", status |-> 400,
                     body |-> [message |-> <<"This is a code error">>,
                               code |-> "CODE_ERROR"]]

-----------------------------------------------------------------------------
(* The phases of one call. *)

\* the steps a call may have taken when it has ended
PhasesOfCompleted ==
    { <<"requestSchema">>,
      <<"requestSchema", "endpoint">>,
      <<"requestSchema", "endpoint", "responseSchema">>,
      <<"requestSchema", "endpoint", "responseSchema", "logger.error">> }

Occurrences(trace, step) == Cardinality({i \in 1..Len(trace) : trace[i] = step})

\* C25: within one call request validation, one invocation of the
\* implementation and response validation of its result run strictly in
\* this order; the implementation is invoked at most once whatever the
\* outcome, no failure of the request, of the implementation or of the
\* response is retried, and response validation never runs before the
\* implementation has completed.
C25_SequentialPhases ==
    /\ PostCompleted =>
        /\ last.trace \in PhasesOfCompleted
        /\ Len(last.invoked) <= 1
        /\ Occurrences(last.trace, "endpoint") = Len(last.invoked)
        /\ Occurrences(last.trace, "requestSchema") = 1
        /\ Occurrences(last.trace, "responseSchema") <= 1
        /\ (last.invoked = <<>>) <=> (LastRequestFailures # <<>>)
        /\ last.invoked = <<>> =>
                /\ last.settled.kind = "none"
                /\ last.outcome.threw
                /\ last.outcome.error.class = "ValidationError"
        /\ last.settled.kind \in {"threw", "rejected"} =>
                /\ last.trace = <<"requestSchema", "endpoint">>
                /\ last.outcome = Threw(last.settled.error)
        /\ (Occurrences(last.trace, "responseSchema") = 1) <=>
                (last.settled.kind = "resolved")
        /\ (last.outcome.threw /\ last.outcome.error.class = "ResponseValidationError") =>
                /\ last.trace = <<"requestSchema", "endpoint", "responseSchema">>
                /\ last.settled.kind = "resolved"
                /\ LastResponseFailures # <<>>
    /\ \A call \in BagToSet(inflight) :
            /\ call.request.trace = <<"requestSchema", "endpoint">>
            /\ Len(call.request.invoked) = 1
            /\ call.request.settled.kind = "none"
            /\ call.request.outcome = NoOutcome

C25_Witness ==
    /\ PostCompleted
    /\ last.path = "/service3/pick"
    /\ last.trace = <<"requestSchema", "endpoint", "responseSchema">>
    /\ Len(last.invoked) = 1
    /\ last.settled.kind = "resolved"
    /\ last.outcome.threw
    /\ last.outcome.error.class = "ResponseValidationError"

-----------------------------------------------------------------------------
(* Calls in flight together. *)

\* what a call of the wrapped method comes to as a function of its own
\* input and of what its own endpoint did
OwnOutcome(wrapped, methodName, args, settled) ==
    LET start == WrappedStart(wrapped, args)
    IN  IF start.invoked = <<>> THEN [logs |-> <<>>, outcome |-> start.outcome]
        ELSE IF settled.kind = "resolved"
        THEN [logs |-> WrappedResume(wrapped, methodName, settled.value).logs,
              outcome |-> WrappedResume(wrapped, methodName, settled.value).outcome]
        ELSE [logs |-> <<>>, outcome |-> WrappedRethrow(settled.error).outcome]

\* C26: with several calls of the same or of different wrapped methods in
\* flight, suspended and resumed in any order at the await of their
\* endpoints, the outcome of each call (the value returned, the message,
\* instancePath and schemaPath of its error, the failures it logs) is
\* determined by its own input and its own endpoint's result alone: what
\* another call left in a validator's errors property is never observed.
C26_CallsIndependent ==
    last.kind = "call" =>
        LET own == OwnOutcome(Method(last.methodName), last.methodName,
                              last.args, last.settled)
        IN  /\ last.outcome = own.outcome
            /\ last.logs = own.logs

\* a call of echo ends with its own response failure while the request
\* validator holds the failure of another call's input and a further call
\* is suspended
C26_Witness ==
    /\ last.kind = "call"
    /\ last.methodName = "echo"
    /\ last.args = Obj(1, <<E("name", Str("b"))>>)
    /\ last.outcome.threw
    /\ last.outcome.error.class = "ResponseValidationError"
    /\ validatorErrors[RequestKey("echo")] # <<>>
    /\ BagCardinality(inflight) = 1

-----------------------------------------------------------------------------
(* Unions. *)

\* the TypeDef of the property config of the last request, refs resolved
ConfigTypeDef == Resolved(Get(LastRequestTypeDef.properties, "config"))

\* the tag values of the variants of a union: the keys of a mapping, or
\* what the schemas under metadata.union allow as their type
VariantTags(typeDef) ==
    IF "mapping" \in DOMAIN typeDef THEN Keys(typeDef.mapping)
    ELSE UNION { LET variant == Resolved(UnionOf(typeDef)[i])
                     allowed == Get(variant.properties, "type").enum
                 IN {allowed[j] : j \in 1..Len(allowed)} :
                 i \in 1..Len(UnionOf(typeDef)) }

UsesUnionKeyword ==
    \E i \in 1..Len(Definitions(app.serviceMeta)) :
        UnionOf(Definitions(app.serviceMeta)[i].v) # <<>>

\* the last request was for a method that takes a union as config
UnionRequested ==
    /\ PostCompleted
    /\ HasKey(Entries(LastRequestTypeDef, "properties"), "config")
    /\ HasKey(last.body.props, "config")

\* C27: a request whose union-typed value carries a tag that matches none
\* of the variants of the union is rejected with a validation error of
\* code "validation" and never accepted, for a discriminator with its
\* mapping and for a union declared among the definitions as a
\* metadata.union list of refs alike; and a service whose definitions use
\* metadata.union registers.
C27_UnknownTagRejected ==
    /\ (UnionRequested
        /\ Get(Get(last.body.props, "config").props, "type").s \notin VariantTags(ConfigTypeDef))
       => /\ last.outcome.threw
          /\ last.outcome.error.class = "ValidationError"
          /\ last.outcome.error.props.code = "validation"
          /\ last.outcome.error.props.type = ValidationType
          /\ last.invoked = <<>>
          /\ last.res.kind = "next"
    /\ (UsesUnionKeyword /\ registration.state # "start")
       => registration.state = "registered"

C27_Witness ==
    /\ UnionRequested
    /\ UsesUnionKeyword
    /\ last.body = Config(<<E("type", Str("invalid")), E("value", Str("test"))>>)
    /\ last.outcome.threw
    /\ last.outcome.error.props.code = "validation"

-----------------------------------------------------------------------------
(* Declared methods without a function. *)

\* the names serviceMeta.methods declares and the service object has no
\* function for
Missing == Keys(app.serviceMeta.methods) \ app.service

\* C28: a declared method name for which the service object has no
\* function is rejected at registration time, not at call time, for a
\* service registered through serviceWithSchema and for one registered
\* through contextServiceWithSchema alike.
C28_MissingFunctionRejected ==
    /\ (Missing # {} /\ registration.state # "start") => registration.state = "failed"
    /\ PostCompleted => last.methodName \notin Missing
    /\ \A call \in BagToSet(inflight) : call.handler.methodName \notin Missing

-----------------------------------------------------------------------------
(* C29 *)

\* the validators compiled at registration for a method in a role
CompiledFor(methodName, role) ==
    {i \in 1..Len(registration.compiled) :
        /\ registration.compiled[i].methodName = methodName
        /\ registration.compiled[i].role = role}

\* the validator is the one compiled from this schema for the method
IsCompiled(methodName, role, schema) ==
    \E i \in CompiledFor(methodName, role) :
        registration.compiled[i].schema = schema

\* the steps of a call never include a compilation, and the two validators
\* it runs are the ones compiled for its method at registration
ReusesCompiled(methodName, trace) ==
    /\ \A i \in 1..Len(trace) : trace[i] # "ajv.compile"
    /\ IsCompiled(methodName, "request",
                  Get(registration.serviceSet.implementation, methodName).requestSchema)
    /\ IsCompiled(methodName, "response",
                  Get(registration.serviceSet.implementation, methodName).responseSchema)

\* C29: once serviceWithSchema has returned, every declared method has
\* exactly one request validator and one response validator, compiled
\* while it ran and nothing else was compiled; no step of the application
\* after that changes what was compiled or what the wrapped methods hold;
\* and no call, completed or awaiting its endpoint, has a compilation
\* among its steps: the validators it runs are the two compiled for its
\* method at registration.
C29_CompiledOnceAtRegistration ==
    /\ [](registration.state = "registered" =>
            /\ Len(registration.compiled) = 2 * Len(app.serviceMeta.methods)
            /\ \A m \in Keys(app.serviceMeta.methods) :
                    /\ Cardinality(CompiledFor(m, "request")) = 1
                    /\ Cardinality(CompiledFor(m, "response")) = 1
            /\ PostCompleted => ReusesCompiled(last.methodName, last.trace)
            /\ \A call \in BagToSet(inflight) :
                    ReusesCompiled(call.handler.methodName, call.request.trace))
    /\ [][registration.state # "start" => registration' = registration]_vars

\* a call of a service with two declared methods ran both validators of
\* its method to completion
C29_Witness ==
    /\ PostCompleted
    /\ Len(app.serviceMeta.methods) >= 2
    /\ Len(registration.compiled) >= 4
    /\ "requestSchema" \in {last.trace[i] : i \in 1..Len(last.trace)}
    /\ "responseSchema" \in {last.trace[i] : i \in 1..Len(last.trace)}

-----------------------------------------------------------------------------
(* C30 *)

\* the TypeDef itself says that unlisted properties are allowed
AllowsExtras(typeDef) ==
    "additionalProperties" \in DOMAIN typeDef /\ typeDef.additionalProperties

\* the request TypeDef has a properties key and does not itself forbid
\* unlisted properties
RootLenient(typeDef) ==
    /\ "properties" \in DOMAIN typeDef
    /\ "additionalProperties" \in DOMAIN typeDef => typeDef.additionalProperties

\* v carries an unlisted property at the root of a TypeDef of the
\* properties form, where a ref stands for its definition
ExtraAt(typeDef, v) ==
    /\ DeclaredKeys(Resolved(typeDef)) # {}
    /\ ~AllowsExtras(Resolved(typeDef))
    /\ HasExtra(Resolved(typeDef), v)

\* v carries an unlisted property inside the value of one of the
\* properties the TypeDef lists
NestedExtra(typeDef, v) ==
    /\ v.t = "object"
    /\ \E i \in 1..Len(Entries(typeDef, "properties")) :
          LET p == typeDef.properties[i]
          IN  /\ HasKey(v.props, p.k)
              /\ ExtraAt(p.v, Get(v.props, p.k))

\* the last request was rejected by the request validator and the
\* implementation was not invoked
RequestRejected ==
    /\ LastRequestFailures # <<>>
    /\ last.invoked = <<>>
    /\ last.outcome.threw
    /\ last.outcome.error.class = "ValidationError"

\* C30: a request is lenient about unlisted properties at the root of a
\* request TypeDef that has a properties key and does not set
\* additionalProperties to false, and nowhere else.  A body with an unlisted
\* property inside a nested object, directly or through a ref, is rejected;
\* a body with an unlisted root property is rejected when the request
\* TypeDef has only optionalProperties, is itself a ref, or sets
\* additionalProperties to false; and is accepted, when that is its only
\* fault, by a TypeDef with a properties key that leaves
\* additionalProperties unset.
C30_LeniencyAtRootOnly ==
    PostCompleted =>
        /\ NestedExtra(LastRequestTypeDef, last.body) => RequestRejected
        /\ (/\ ~RootLenient(LastRequestTypeDef)
            /\ ExtraAt(LastRequestTypeDef, last.body)) => RequestRejected
        /\ (/\ RootLenient(LastRequestTypeDef)
            /\ HasExtra(LastRequestTypeDef, last.body)
            /\ SatisfiesButForExtras(LastRequestTypeDef, last.body)) =>
                /\ LastRequestFailures = <<>>
                /\ last.invoked = <<last.body>>

\* the same body with an unlisted root property was rejected by the
\* method whose request TypeDef has only optionalProperties
C30_Witness ==
    /\ PostCompleted
    /\ last.methodName = "optOnly"
    /\ last.body = Obj(1, <<E("name", Str("b")), E("extra", Num(1))>>)
    /\ RequestRejected
    /\ last.outcome.error.props.instancePath = <<"/", "extra">>

=========================================================================
